---- MODULE Spec2Model ----
(***************************************************************************)
(* Model of the lecture-processing worker (src/worker): the FastAPI        *)
(* endpoints POST /process and GET /health, the background task            *)
(* process_job_background, the pipeline process_lecture and the signed,    *)
(* retried callback send_callback.                                         *)
(*                                                                         *)
(* Optional strings (an absent JSON field, an unset environment variable,  *)
(* Python's None) are sequences: <<>> is None, <<s>> is the string s.      *)
(* Text (JSON bodies, messages) is TLA+ strings, built with \o as the      *)
(* code builds it.                                                         *)
(***************************************************************************)
EXTENDS Integers, Sequences, FiniteSets, TLC

VARIABLES
    env,            \* os.environ: variable name -> optional string
    openai_client,  \* pipeline.py's module-level lazy client: FALSE = None
    s3,             \* object storage: the put_object calls made so far, in order
    nreq,           \* number of HTTP requests answered so far
    response,       \* the last HTTP response sent
    tasks,          \* the background tasks scheduled so far, in order
    loop,           \* the task running on the event loop, 0 when idle
    nz,             \* one model reply and what each explain_slide made of it
    ab              \* one explanation list and what the artifact builders made of it

vars == <<env, openai_client, s3, nreq, response, tasks, loop, nz, ab>>

----------------------------------------------------------------------------
(* Bounds of the model *)

\* HTTP requests per behaviour
MaxRequests == 1
\* pages of a PDF
MaxSlides == 2

JobIds == {"j1", "j2"}

----------------------------------------------------------------------------
(* Python values *)

None == <<>>

\* bool(x) for an Optional[str]: None and "" are falsy
Truthy(o) == o # None /\ o # <<"">>

\* repr() of a list of str, as an f-string prints it: ['A', 'B']
RECURSIVE ReprItems(_)
ReprItems(l) ==
    IF l = <<>> THEN ""
    ELSE IF Len(l) = 1 THEN "'" \o l[1] \o "'"
    ELSE "'" \o l[1] \o "', " \o ReprItems(Tail(l))

ReprList(l) == "[" \o ReprItems(l) \o "]"

Range(l) == {l[i] : i \in 1..Len(l)}

----------------------------------------------------------------------------
(* Environment *)

\* mutant: the callback secret is left out of the list
required_vars_no_secret ==
    << "OPENAI_API_KEY", "AWS_ACCESS_KEY_ID", "AWS_SECRET_ACCESS_KEY",
       "S3_BUCKET", "WORKER_CALLBACK_URL" >>

required_vars ==
    << "OPENAI_API_KEY", "AWS_ACCESS_KEY_ID", "AWS_SECRET_ACCESS_KEY",
       "S3_BUCKET", "WORKER_CALLBACK_URL", "WORKER_CALLBACK_SECRET" >>

\* the names os.environ is modelled on
EnvVars == { "OPENAI_API_KEY", "AWS_ACCESS_KEY_ID", "AWS_SECRET_ACCESS_KEY",
            "S3_BUCKET", "WORKER_CALLBACK_URL", "WORKER_CALLBACK_SECRET" }

\* the value a variable has when it is configured
Configured(var) ==
    CASE var = "WORKER_CALLBACK_SECRET" -> <<"s3cr3t">>
      [] var = "WORKER_CALLBACK_URL" -> <<"https://app.example/api/callback">>
      [] var = "S3_BUCKET" -> <<"bucket">>
      [] OTHER -> <<"key">>

\* every environment: each variable unset, empty or configured
Envs == { e \in [EnvVars -> {None, <<"">>, <<"key">>, <<"s3cr3t">>, <<"bucket">>,
                             <<"https://app.example/api/callback">>}] :
            \A v \in EnvVars : e[v] \in {None, <<"">>, Configured(v)} }

FullEnv == [v \in EnvVars |-> Configured(v)]

\* the variables the job code itself tests
JobVars == {"OPENAI_API_KEY", "S3_BUCKET", "WORKER_CALLBACK_URL", "WORKER_CALLBACK_SECRET"}

\* the environments jobs are run in: fully configured, or one of the
\* variables the job code tests unset or empty
JobEnvs == { e \in Envs : /\ \A v \in EnvVars \ JobVars : e[v] = Configured(v)
                          /\ Cardinality({v \in JobVars : e[v] # Configured(v)}) <= 1 }

getenv(var) == env[var]

CALLBACK_URL == getenv("WORKER_CALLBACK_URL")
CALLBACK_SECRET == getenv("WORKER_CALLBACK_SECRET")
BUCKET_NAME == getenv("S3_BUCKET")

\* [var for var in l if not os.getenv(var)]
RECURSIVE missing_vars(_)
missing_vars(l) ==
    IF l = <<>> THEN <<>>
    ELSE IF ~Truthy(getenv(l[1])) THEN <<l[1]>> \o missing_vars(Tail(l))
    ELSE missing_vars(Tail(l))

----------------------------------------------------------------------------
(* JSON text, as json.dumps writes it with its default separators.  A dict *)
(* is the sequence of its <<key, JSON text of the value>> pairs in         *)
(* insertion order.                                                        *)

JsonStr(s) == "\"" \o s \o "\""
JsonInt(n) == ToString(n)

RECURSIVE JsonItems(_)
JsonItems(d) ==
    IF d = <<>> THEN ""
    ELSE IF Len(d) = 1 THEN JsonStr(d[1][1]) \o ": " \o d[1][2]
    ELSE JsonStr(d[1][1]) \o ": " \o d[1][2] \o ", " \o JsonItems(Tail(d))

json_dumps(d) == "{" \o JsonItems(d) \o "}"

\* str.encode('utf-8'): the bytes of a text
encode_utf8(s) == [utf8 |-> s]

----------------------------------------------------------------------------
(* callback.py *)

\* hmac.new(key, msg, hashlib.sha256).hexdigest(), as a symbolic term
hmac_sha256_hex(key, msg) == [hmac_sha256 |-> <<key, msg>>]

_compute_signature(payload_bytes) ==
    IF ~Truthy(CALLBACK_SECRET)
    THEN [raises |-> "WORKER_CALLBACK_SECRET not set"]
    ELSE [raises |-> "",
          hexdigest |-> hmac_sha256_hex(encode_utf8(CALLBACK_SECRET[1]), payload_bytes)]

\* (a payload that carries both keys whatever the status, null when unset)
callback_payload_both_keys(job_id, status, outputs, error) ==
    << <<"jobId", JsonStr(job_id)>>, <<"status", JsonStr(status)>>,
       <<"outputs", IF outputs # <<>> THEN json_dumps(outputs) ELSE "null">>,
       <<"error", IF error # <<>> THEN json_dumps(error) ELSE "null">> >>

\* the payload dict of send_callback
callback_payload(job_id, status, outputs, error) ==
    << <<"jobId", JsonStr(job_id)>>, <<"status", JsonStr(status)>> >>
    \o (IF outputs # <<>> THEN << <<"outputs", json_dumps(outputs)>> >> ELSE <<>>)
    \o (IF error # <<>> THEN << <<"error", json_dumps(error)>> >> ELSE <<>>)

\* json.dumps(d, separators=(",", ":"))
RECURSIVE JsonItemsCompact(_)
JsonItemsCompact(d) ==
    IF d = <<>> THEN ""
    ELSE IF Len(d) = 1 THEN JsonStr(d[1][1]) \o ":" \o d[1][2]
    ELSE JsonStr(d[1][1]) \o ":" \o d[1][2] \o "," \o JsonItemsCompact(Tail(d))

\* mutant: the signature is computed over a second, compact serialization
\* of the payload, not over the bytes that are sent
callback_request_resigned(payload) ==
    LET payload_bytes == encode_utf8(json_dumps(payload))
        signed_bytes == encode_utf8("{" \o JsonItemsCompact(payload) \o "}")
        signature == _compute_signature(signed_bytes)
    IN  [content |-> payload_bytes,
         headers |-> [ContentType |-> "application/json",
                      XWorkerSignature |-> signature.hexdigest]]

\* the body and the headers every attempt of one send_callback call posts
callback_request(payload) ==
    LET payload_json == json_dumps(payload)
        payload_bytes == encode_utf8(payload_json)
        signature == _compute_signature(payload_bytes)
    IN  [content |-> payload_bytes,
         headers |-> [ContentType |-> "application/json",
                      XWorkerSignature |-> signature.hexdigest]]

\* for attempt in range(3)
MaxAttempts == 3

\* what one client.post can end in: a response with a status code, or a
\* transport exception
Outcomes == { [exception |-> FALSE, status_code |-> 200],
              [exception |-> FALSE, status_code |-> 500],
              [exception |-> TRUE, status_code |-> 0] }

NoOutcome == [exception |-> FALSE, status_code |-> 0]

is_success(outcome) == ~outcome.exception /\ outcome.status_code = 200

\* if attempt < 2 (attempt is the 0-based loop index)
sleeps_after(attempt) == attempt < 2

\* mutant: a linear backoff, 2 * attempt
backoff_linear(attempt) == 2 * attempt

\* asyncio.sleep(2 ** attempt)
backoff(attempt) == 2 ^ attempt

(* One send_callback call.  site is where process_job_background made it  *)
(* ("try" or "except"); content and headers are its local variables;      *)
(* posts is the sequence of requests handed to client.post, one per        *)
(* attempt; sleeps the backoff sleeps started; last the outcome of the     *)
(* latest finished POST; result is "posting", "sleeping", "closing",        *)
(* "returned" or "raised" (with the message in exc); while the call is     *)
(* "closing" (it leaves the async with block and waits in the client's     *)
(* __aexit__), leaving holds how it leaves.  Three fields only observe the *)
(* call: failed counts the POSTs that ended without a 200 response, ok_at  *)
(* is the number of the first POST answered 200 (0: none yet), payload is  *)
(* the payload dict the call built (<<>>: it raised before building one).  *)
send_callback(site, job_id, status, outputs, error) ==
    LET base == [site |-> site, status |-> status, content |-> encode_utf8(""),
                 headers |-> <<>>, posts |-> <<>>, sleeps |-> <<>>,
                 last |-> NoOutcome, result |-> "raised", exc |-> "",
                 leaving |-> "", failed |-> 0, ok_at |-> 0, payload |-> <<>>]
        payload == callback_payload(job_id, status, outputs, error)
        request == callback_request(payload)
    IN  IF ~Truthy(CALLBACK_URL)
        THEN [base EXCEPT !.exc = "WORKER_CALLBACK_URL not set"]
        ELSE IF ~Truthy(CALLBACK_SECRET)
        THEN [base EXCEPT !.exc = "WORKER_CALLBACK_SECRET not set"]
        ELSE [base EXCEPT !.content = request.content,
                          !.headers = <<request.headers>>,
                          !.posts = <<request>>,
                          !.payload = payload,
                          !.result = "posting"]

\* the top of the loop body, or the statements after the loop when range(3)
\* is used up
next_attempt(call) ==
    IF Len(call.posts) < MaxAttempts
    THEN [call EXCEPT !.posts = Append(@, [content |-> call.content,
                                           headers |-> call.headers[1]]),
                      !.result = "posting"]
    ELSE [call EXCEPT !.result = "raised", !.exc = "Callback failed after retries"]

\* client.post ended in outcome: what the call has observed
observe(call, outcome) ==
    LET got200 == ~outcome.exception /\ outcome.status_code = 200
    IN  [call EXCEPT !.last = outcome,
                     !.failed = IF got200 THEN @ ELSE @ + 1,
                     !.ok_at = IF got200 /\ @ = 0 THEN Len(call.posts) ELSE @]

\* mutant: a 200 response is logged but the loop does not return
after_post_no_return(call, outcome) ==
    LET attempt == Len(call.posts) - 1
        seen == observe(call, outcome)
    IN  IF sleeps_after(attempt)
        THEN [seen EXCEPT !.result = "sleeping",
                          !.sleeps = Append(@, backoff(attempt))]
        ELSE next_attempt(seen)

\* mutant: client.post is not inside the try, a transport exception leaves
\* send_callback at once
after_post_exception_propagates(call, outcome) ==
    LET attempt == Len(call.posts) - 1
        seen == observe(call, outcome)
    IN  IF outcome.exception
        THEN [seen EXCEPT !.result = "raised", !.exc = "ConnectError"]
        ELSE IF is_success(outcome)
        THEN [seen EXCEPT !.result = "returned"]
        ELSE IF sleeps_after(attempt)
        THEN [seen EXCEPT !.result = "sleeping",
                          !.sleeps = Append(@, backoff(attempt))]
        ELSE next_attempt(seen)

\* the loop body of send_callback after client.post ended in outcome
after_post(call, outcome) ==
    LET attempt == Len(call.posts) - 1
        seen == observe(call, outcome)
    IN  IF is_success(outcome)
        THEN [seen EXCEPT !.result = "returned"]
        ELSE IF sleeps_after(attempt)
        THEN [seen EXCEPT !.result = "sleeping",
                          !.sleeps = Append(@, backoff(attempt))]
        ELSE next_attempt(seen)

\* the return or the raise leaves `async with httpx.AsyncClient(...)`:
\* __aexit__ closes the client.  kept: the last POST was answered and its
\* connection is still in the client's pool, and closing it gives the event
\* loop a turn; otherwise nothing is awaited on the way out
client_aexit(call, kept) ==
    IF call.result \in {"returned", "raised"} /\ kept /\ ~call.last.exception
    THEN [call EXCEPT !.leaving = call.result, !.result = "closing"]
    ELSE call

\* __aexit__ ended: the pending return or raise goes on
after_close(call) == [call EXCEPT !.result = call.leaving, !.leaving = ""]

\* (a backoff sleep that never ends)
after_sleep_forever(call) == call

\* asyncio.sleep returned
after_sleep(call) == next_attempt(call)

----------------------------------------------------------------------------
(* Python values as json.loads gives them.  A value is a tagged tuple:     *)
(* <<"null">>, <<"bool", b>>, <<"num", n>>, <<"str", pieces>>,             *)
(* <<"list", items>>, <<"obj", pairs>> with pairs a sequence of            *)
(* <<key, value>> in key order                                             *)
(* of the text.  A str is the concatenation of its pieces, each piece      *)
(* either the one blank " " or a non-empty run without whitespace at its   *)
(* ends; <<"text", tokens>> is the str holding the text of a model reply   *)
(* (below).                                                                *)

JNull == <<"null">>
JBool(b) == <<"bool", b>>
JNum(n) == <<"num", n>>
JStr(pieces) == <<"str", pieces>>
JList(items) == <<"list", items>>
JObj(pairs) == <<"obj", pairs>>
JText(tokens) == <<"text", tokens>>

\* isinstance(v, str), isinstance(v, list), isinstance(v, dict)
is_str(v) == v[1] \in {"str", "text"}
is_list(v) == v[1] = "list"
is_dict(v) == v[1] = "obj"

\* bool(v)
py_bool(v) ==
    CASE v[1] = "null" -> FALSE
      [] v[1] = "bool" -> v[2]
      [] v[1] = "num" -> v[2] # 0
      [] OTHER -> v[2] # <<>>

\* a or b
py_or(a, b) == IF py_bool(a) THEN a ELSE b

\* key in d
has_key(d, key) == \E i \in 1..Len(d[2]) : d[2][i][1] = key

\* d.get(key, default): the value stored under key, a stored null included
dict_get(d, key, default) ==
    IF has_key(d, key)
    THEN d[2][CHOOSE i \in 1..Len(d[2]) : d[2][i][1] = key][2]
    ELSE default

\* s.strip() on the pieces of a str
RECURSIVE lstrip(_)
lstrip(p) == IF p # <<>> /\ Head(p) = " " THEN lstrip(Tail(p)) ELSE p

RECURSIVE rstrip(_)
rstrip(p) ==
    IF p # <<>> /\ p[Len(p)] = " " THEN rstrip(SubSeq(p, 1, Len(p) - 1)) ELSE p

strip(p) == rstrip(lstrip(p))

\* " ".join(strs) on a sequence of piece sequences
RECURSIVE join(_)
join(strs) ==
    IF strs = <<>> THEN <<>>
    ELSE IF Len(strs) = 1 THEN strs[1]
    ELSE strs[1] \o <<" ">> \o join(Tail(strs))

\* f"Slide {slide_number}"
slide_title(slide_number) == JStr(<<"Slide", " ", ToString(slide_number)>>)

----------------------------------------------------------------------------
(* The text of a model reply, after str.strip(), as a sequence of tokens   *)
(* separated by line breaks:                                               *)
(*   <<"json", v>>   the JSON text of value v (json.dumps(v));             *)
(*   <<"prose", w>>  the word w: no brace, backtick, quote or colon;       *)
(*   <<"fence", l>>  a code fence "```" followed by l ("json" or "");      *)
(*   <<"tail", v>>   the JSON text of object v without its first "{";      *)
(*   <<"qtail", v>>  a double quote followed by the text of <<"tail", v>>; *)
(*   <<"echo", w>>   the template echo "{{w}}";                            *)
(*   <<"cut", v>>    the JSON text of object v cut before its last string  *)
(*                   ends: it opens with "{" and holds no "}".             *)
(* The objects of tail, qtail and cut tokens and the values of json tokens *)
(* that are not objects hold no nested object, and no string holds a       *)
(* brace or a backtick.                                                    *)

\* the token's text starts with "{" (these are the tokens that hold a "{")
starts_with_brace(tok) ==
    \/ tok[1] \in {"echo", "cut"}
    \/ tok[1] = "json" /\ is_dict(tok[2])

\* the token's text ends with "}" (these are the tokens that hold a "}")
ends_with_brace(tok) ==
    \/ tok[1] \in {"echo", "tail", "qtail"}
    \/ tok[1] = "json" /\ is_dict(tok[2])

\* json.loads(s): <<v>> when s is the text of one JSON value, <<>> when it
\* raises
json_loads(s) ==
    IF Len(s) = 1 /\ s[1][1] = "json" THEN <<s[1][2]>> ELSE <<>>

\* re.search(r"```json\s*(\{.*?\})\s*```", s, re.S) for langs = {"json"} and
\* re.search(r"```\s*(\{.*?\})\s*```", s, re.S) for langs = {""}: group 1 of
\* the leftmost match, lazily ended, as <<group>>; <<>> without a match
search_fenced(s, langs) ==
    LET closes(i) == { j \in (i + 2)..Len(s) :
                           s[j][1] = "fence" /\ ends_with_brace(s[j - 1]) }
        opens == { i \in 1..(Len(s) - 1) :
                       /\ s[i][1] = "fence" /\ s[i][2] \in langs
                       /\ starts_with_brace(s[i + 1])
                       /\ closes(i) # {} }
    IN  IF opens = {} THEN <<>>
        ELSE LET i == CHOOSE a \in opens : \A b \in opens : a <= b
                 j == CHOOSE a \in closes(i) : \A b \in closes(i) : a <= b
             IN  << SubSeq(s, i + 1, j - 1) >>

\* re.search(r"(\{.*\})", s, re.S): from the first "{" to the last "}"
search_braces(s) ==
    LET opens == { i \in 1..Len(s) : starts_with_brace(s[i]) }
        closes == { i \in 1..Len(s) : ends_with_brace(s[i]) }
    IN  IF opens = {} \/ closes = {} THEN <<>>
        ELSE LET i == CHOOSE a \in opens : \A b \in opens : a <= b
                 j == CHOOSE a \in closes : \A b \in closes : a >= b
             IN  IF i <= j THEN << SubSeq(s, i, j) >> ELSE <<>>

----------------------------------------------------------------------------
(* pipeline.py: explain_slide, from the reply of the model to its result.  *)
(* A reply is [exc |-> <<>>, content |-> tokens] when the API call         *)
(* returned that text, and [exc |-> <<message>>, content |-> <<>>] when it *)
(* raised.  A parse is [ok |-> TRUE, data |-> v] or, when an exception     *)
(* reached the except clause of explain_slide, [ok |-> FALSE, error |-> e]; *)
(* the message of a json.JSONDecodeError stands as "JSONDecodeError".      *)

parsed(v) == [ok |-> TRUE, data |-> v]
raised(e) == [ok |-> FALSE, error |-> e]

\* type(v).__name__
type_name(v) ==
    CASE v[1] = "null" -> "NoneType"
      [] v[1] = "bool" -> "bool"
      [] v[1] = "num" -> "int"
      [] v[1] \in {"str", "text"} -> "str"
      [] v[1] = "list" -> "list"
      [] OTHER -> "dict"

\* str(e) of the AttributeError of v.get on a value that is no dict
no_get(v) == "'" \o type_name(v) \o "' object has no attribute 'get'"

\* json.loads(m.group(1)) outside any inner try
loads_or_raise(group) ==
    IF json_loads(group) # <<>> THEN parsed(json_loads(group)[1])
    ELSE raised("JSONDecodeError")

\* # Extract JSON
extract_json(content) ==
    IF json_loads(content) # <<>> THEN parsed(json_loads(content)[1])
    ELSE IF search_fenced(content, {"json"}) # <<>>
    THEN loads_or_raise(search_fenced(content, {"json"})[1])
    ELSE IF search_braces(content) # <<>>
    THEN loads_or_raise(search_braces(content)[1])
    ELSE raised("Could not parse JSON from response")

\* (a schema mapping that guards no field with "or")
normalize_unguarded(explanation_data, slide_number) ==
    [ titulo |-> dict_get(explanation_data, "titulo", slide_title(slide_number)),
      explicacion_didactica |->
          dict_get(explanation_data, "explicacion_didactica", JStr(<<>>)),
      puntos_clave |-> dict_get(explanation_data, "puntos_clave", JList(<<>>)),
      conexiones |-> dict_get(explanation_data, "conexiones", JStr(<<>>)),
      resumen_corto |-> dict_get(explanation_data, "resumen_corto", JStr(<<>>)),
      anki_cards |-> dict_get(explanation_data, "anki_cards", JList(<<>>)) ]

\* # Normalize to expected schema
normalize(explanation_data, slide_number) ==
    [ titulo |-> dict_get(explanation_data, "titulo", slide_title(slide_number)),
      explicacion_didactica |->
          dict_get(explanation_data, "explicacion_didactica", JStr(<<>>)),
      puntos_clave |->
          py_or(dict_get(explanation_data, "puntos_clave", JList(<<>>)), JList(<<>>)),
      conexiones |-> dict_get(explanation_data, "conexiones", JStr(<<>>)),
      resumen_corto |-> dict_get(explanation_data, "resumen_corto", JStr(<<>>)),
      anki_cards |->
          py_or(dict_get(explanation_data, "anki_cards", JList(<<>>)), JList(<<>>)) ]

\* the dict explain_slide returns from its except clause
slide_failure(slide_number, error) ==
    [success |-> FALSE, slide_number |-> slide_number, error |-> error]

\* the try block of explain_slide and its except clause
explain_result(reply, slide_number) ==
    IF reply.exc # <<>> THEN slide_failure(slide_number, reply.exc[1])
    ELSE LET p == extract_json(reply.content)
         IN  IF ~p.ok THEN slide_failure(slide_number, p.error)
             ELSE IF ~is_dict(p.data)
             THEN slide_failure(slide_number, no_get(p.data))
             ELSE [success |-> TRUE, slide_number |-> slide_number,
                   explanation |-> normalize(p.data, slide_number)]

\* for card in anki_cards: the items the loop visits, or the TypeError of
\* iterating a value that is not iterable.  A str gives its characters and
\* a dict its keys, each a str.
iterate(v) ==
    CASE v[1] = "list" -> parsed(v[2])
      [] v[1] \in {"str", "text"} -> parsed([i \in 1..Len(v[2]) |-> JStr(<<"c">>)])
      [] v[1] = "obj" -> parsed([i \in 1..Len(v[2]) |-> JStr(<<v[2][i][1]>>)])
      [] OTHER -> raised("'" \o type_name(v) \o "' object is not iterable")

\* (a summary whose card entries carry the card's position in its slide,
\* not the slide's number)
summary_cards_untagged(exp) ==
    LET cards == iterate(exp.explanation.anki_cards)
    IN  IF ~cards.ok THEN cards
        ELSE IF \E i \in 1..Len(cards.data) : ~is_dict(cards.data[i])
        THEN raised(no_get(cards.data[CHOOSE i \in 1..Len(cards.data) :
                                          /\ ~is_dict(cards.data[i])
                                          /\ \A k \in 1..(i - 1) :
                                                 is_dict(cards.data[k])]))
        ELSE parsed([i \in 1..Len(cards.data) |->
                        [slide_number |-> i,
                         front |-> dict_get(cards.data[i], "pregunta", JStr(<<>>)),
                         back |-> dict_get(cards.data[i], "respuesta", JStr(<<>>))]])

\* the entries generate_summary_json appends to summary["anki_cards"] for
\* one explanation, or the exception that stops it
summary_cards(exp) ==
    LET cards == iterate(exp.explanation.anki_cards)
    IN  IF ~cards.ok THEN cards
        ELSE IF \E i \in 1..Len(cards.data) : ~is_dict(cards.data[i])
        THEN raised(no_get(cards.data[CHOOSE i \in 1..Len(cards.data) :
                                          /\ ~is_dict(cards.data[i])
                                          /\ \A k \in 1..(i - 1) :
                                                 is_dict(cards.data[k])]))
        ELSE parsed([i \in 1..Len(cards.data) |->
                        [slide_number |-> exp.slide_number,
                         front |-> dict_get(cards.data[i], "pregunta", JStr(<<>>)),
                         back |-> dict_get(cards.data[i], "respuesta", JStr(<<>>))]])

\* the entry generate_summary_json appends to summary["slides"]
summary_slide(exp) ==
    [slide_number |-> exp.slide_number,
     titulo |-> exp.explanation.titulo,
     explicacion_didactica |-> exp.explanation.explicacion_didactica,
     puntos_clave |-> exp.explanation.puntos_clave,
     conexiones |-> exp.explanation.conexiones,
     resumen_corto |-> exp.explanation.resumen_corto]

RECURSIVE summary_entries(_)
summary_entries(explanations) ==
    IF explanations = <<>> THEN [slides |-> <<>>, anki_cards |-> <<>>]
    ELSE LET exp == Head(explanations)
             rest == summary_entries(Tail(explanations))
         IN  IF exp.success
             THEN [slides |-> <<summary_slide(exp)>> \o rest.slides,
                   anki_cards |-> summary_cards(exp).data \o rest.anki_cards]
             ELSE rest

\* (a summary that counts the analysed slides only)
generate_summary_json_successes(explanations) ==
    LET bad == { i \in 1..Len(explanations) :
                     explanations[i].success /\ ~summary_cards(explanations[i]).ok }
    IN  IF bad # {}
        THEN summary_cards(explanations[CHOOSE i \in bad : \A k \in bad : i <= k])
        ELSE parsed([slides |-> summary_entries(explanations).slides,
                     total_slides |-> Len(summary_entries(explanations).slides),
                     anki_cards |-> summary_entries(explanations).anki_cards])

generate_summary_json(explanations) ==
    LET bad == { i \in 1..Len(explanations) :
                     explanations[i].success /\ ~summary_cards(explanations[i]).ok }
    IN  IF bad # {}
        THEN summary_cards(explanations[CHOOSE i \in bad : \A k \in bad : i <= k])
        ELSE parsed([slides |-> summary_entries(explanations).slides,
                     total_slides |-> Len(explanations),
                     anki_cards |-> summary_entries(explanations).anki_cards])

----------------------------------------------------------------------------
(* pipeline.py: generate_anki_package and generate_docx.  The temporary    *)
(* files a builder creates are named <<"docx", 0>>, <<"apkg", 0>> and     *)
(* <<"png", i>> for the image of slide i; each builder gives its result (a *)
(* parse as above) and the set of its temporary files that exist when it   *)
(* exits.                                                                  *)

\* the text of a str, from its pieces
RECURSIVE text_of(_)
text_of(pieces) == IF pieces = <<>> THEN "" ELSE Head(pieces) \o text_of(Tail(pieces))

\* repr(v) and, below, str(v), as an f-string prints a value
RECURSIVE py_repr(_)
py_repr(v) ==
    LET \* the items of a list or the "key: value" pairs of a dict, joined by ", "
        items(n) == [i \in 1..n |->
                        IF v[1] = "list" THEN py_repr(v[2][i])
                        ELSE "'" \o v[2][i][1] \o "': " \o py_repr(v[2][i][2])]
        joined(n) == IF n = 0 THEN ""
                     ELSE IF n = 1 THEN items(1)[1]
                     ELSE text_of([i \in 1..(2 * n - 1) |->
                                      IF i % 2 = 1 THEN items(n)[(i + 1) \div 2]
                                      ELSE ", "])
    IN  CASE v[1] = "null" -> "None"
          [] v[1] = "bool" -> IF v[2] THEN "True" ELSE "False"
          [] v[1] = "num" -> ToString(v[2])
          [] v[1] = "str" -> "'" \o text_of(v[2]) \o "'"
          [] v[1] = "list" -> "[" \o joined(Len(v[2])) \o "]"
          [] OTHER -> "{" \o joined(Len(v[2])) \o "}"

py_str(v) == IF v[1] = "str" THEN text_of(v[2]) ELSE py_repr(v)

\* str(e) of the AttributeError of v.strip() on a value that is no str
no_strip(v) == "'" \o type_name(v) \o "' object has no attribute 'strip'"

\* (a package that adds a note for every card that is an object)
RECURSIVE package_notes_unfiltered(_, _, _)
package_notes_unfiltered(cards, i, source) ==
    IF i > Len(cards) THEN parsed(<<>>)
    ELSE IF ~is_dict(cards[i]) THEN package_notes_unfiltered(cards, i + 1, source)
    ELSE LET pregunta == dict_get(cards[i], "pregunta", JStr(<<>>))
             respuesta == dict_get(cards[i], "respuesta", JStr(<<>>))
             rest == package_notes_unfiltered(cards, i + 1, source)
         IN  IF ~is_str(pregunta) THEN raised(no_strip(pregunta))
             ELSE IF ~is_str(respuesta) THEN raised(no_strip(respuesta))
             ELSE IF ~rest.ok THEN rest
             ELSE parsed(<< [fields |-> << JStr(strip(pregunta[2])),
                                            JStr(strip(respuesta[2])),
                                            source >>] >> \o rest.data)

\* the notes generate_anki_package adds for the cards of one slide, from
\* card number i on, or the exception that stops it
RECURSIVE package_notes(_, _, _)
package_notes(cards, i, source) ==
    IF i > Len(cards) THEN parsed(<<>>)
    ELSE IF ~is_dict(cards[i]) THEN package_notes(cards, i + 1, source)
    ELSE LET pregunta == dict_get(cards[i], "pregunta", JStr(<<>>))
             respuesta == dict_get(cards[i], "respuesta", JStr(<<>>))
             rest == package_notes(cards, i + 1, source)
         IN  IF ~is_str(pregunta) THEN raised(no_strip(pregunta))
             ELSE IF ~is_str(respuesta) THEN raised(no_strip(respuesta))
             ELSE IF ~rest.ok THEN rest
             ELSE IF strip(pregunta[2]) # <<>> /\ strip(respuesta[2]) # <<>>
             THEN parsed(<< [fields |-> << JStr(strip(pregunta[2])),
                                            JStr(strip(respuesta[2])),
                                            source >>] >> \o rest.data)
             ELSE rest

\* f"Slide {slide_num}: {titulo}"
note_source(slide_num, titulo) ==
    "Slide " \o ToString(slide_num) \o ": " \o py_str(titulo)

\* # Add cards: the notes of the deck, or the exception that stops the loop
RECURSIVE deck_notes(_)
deck_notes(explanations) ==
    IF explanations = <<>> THEN parsed(<<>>)
    ELSE LET explanation == Head(explanations)
             rest == deck_notes(Tail(explanations))
         IN  IF ~explanation.success THEN rest
             ELSE LET exp_data == explanation.explanation
                      anki_cards == iterate(exp_data.anki_cards)
                      notes == package_notes(
                                   anki_cards.data, 1,
                                   note_source(explanation.slide_number,
                                               exp_data.titulo))
                  IN  IF ~anki_cards.ok THEN anki_cards
                      ELSE IF ~notes.ok THEN notes
                      ELSE IF ~rest.ok THEN rest
                      ELSE parsed(notes.data \o rest.data)

\* the faults of the file system generate_anki_package may meet after its
\* temporary file was created: package.write_to_file raises, or reading
\* the file back raises
PackageFaults == {"none", "write_to_file", "read"}

generate_anki_package(explanations, fault) ==
    LET notes == deck_notes(explanations)
    IN  IF ~notes.ok THEN [result |-> notes, files |-> {}]
        ELSE IF fault # "none"
        THEN [result |-> raised("OSError"), files |-> { <<"apkg", 0>> }]
        ELSE [result |-> notes, files |-> {}]

\* what the image step of generate_docx may meet for one slide: nothing,
\* NamedTemporaryFile raises, img_tmp.write or img_tmp.close raises, or
\* doc.add_picture raises
ImageFaults == {"none", "create", "write", "add_picture"}

\* generate_docx over len(slides) = len(explanations) slides.  faults[i] is
\* what the image step of slide i meets; raise_at is the slide during whose
\* paragraphs an exception leaves the try block, Len(explanations) + 1 when
\* doc.save or the read raises, 0 when nothing does.
generate_docx(explanations, faults, raise_at) ==
    LET n == Len(explanations)
        last == IF raise_at = 0 \/ raise_at > n THEN n ELSE raise_at
        created == { i \in 1..last : faults[i] # "create" }
        temp_images == { i \in 1..last : faults[i] \in {"none", "add_picture"} }
        pictures == { i \in 1..last : faults[i] = "none" }
    IN  [result |-> IF raise_at = 0
                    THEN parsed([slides |-> n, pictures |-> pictures])
                    ELSE raised("docx build failed"),
         files |-> { <<"png", i>> : i \in created \ temp_images }]

----------------------------------------------------------------------------
(* slide_explainer_no_api.py: explain_slide, from the text of the reply to *)
(* its result (slide_explainer.py has the same code without anki_cards).   *)

\* s.startswith('"') and not s.startswith('{"')
starts_with_quote(s) == s # <<>> /\ s[1][1] \in {"tail", "qtail"}

\* step 2 of extract_json_safe: json.loads("{" + s), then
\* json.loads('{"' + s.lstrip('\n "')) when that text holds a colon; the
\* tokens after the first keep either text from being one JSON value
prepend_brace(s) ==
    IF Len(s) = 1 THEN <<s[1][2]>> ELSE <<>>

\* the first of the recovery steps 1-5 that gives a value, as <<value>>;
\* <<>> when none does
RECURSIVE first_parse(_)
first_parse(attempts) ==
    IF attempts = <<>> THEN <<>>
    ELSE IF Head(attempts) # <<>> /\ json_loads(Head(attempts)[1]) # <<>>
    THEN json_loads(Head(attempts)[1])
    ELSE first_parse(Tail(attempts))

\* re.sub(r"\{\{[\s\S]*?\}\}", "", s).strip()
remove_echoes(s) == SelectSeq(s, LAMBDA tok : tok[1] # "echo")

\* step 6 of extract_json_safe
last_resort(s, slide_number) ==
    JObj(<< <<"titulo", slide_title(slide_number)>>,
            <<"explicacion_didactica",
              IF remove_echoes(s) # <<>> THEN JText(remove_echoes(s)) ELSE JText(s)>>,
            <<"puntos_clave", JList(<<>>)>>,
            <<"conexiones", JStr(<<>>)>>,
            <<"resumen_corto", JStr(<<>>)>> >>)

extract_json_safe(s, slide_number) ==
    IF json_loads(s) # <<>> THEN json_loads(s)[1]
    ELSE IF starts_with_quote(s) /\ prepend_brace(s) # <<>>
    THEN prepend_brace(s)[1]
    ELSE LET found == first_parse(<< search_fenced(s, {"json"}),
                                     search_fenced(s, {""}),
                                     search_braces(s) >>)
         IN  IF found # <<>> THEN found[1] ELSE last_resort(s, slide_number)

CanonicalKeys ==
    <<"titulo", "explicacion_didactica", "puntos_clave", "conexiones", "resumen_corto">>

\* " ".join(v) on a list: the joined str, or the TypeError of an item that
\* is no str
join_list(v) ==
    LET bad == { i \in 1..Len(v[2]) : ~is_str(v[2][i]) }
    IN  IF bad = {} THEN parsed(join([i \in 1..Len(v[2]) |-> v[2][i][2]]))
        ELSE LET i == CHOOSE a \in bad : \A b \in bad : a <= b
             IN  raised("sequence item " \o ToString(i - 1)
                        \o ": expected str instance, "
                        \o type_name(v[2][i]) \o " found")

\* the parts list of the legacy branch, as joined by " ".join(p for p in
\* parts if p)
legacy_parts(contenido_clave_old, contexto_old, insights_old) ==
    SelectSeq(
        (IF is_list(contenido_clave_old) /\ py_bool(contenido_clave_old)
         THEN << join_list(contenido_clave_old).data >> ELSE <<>>)
        \o (IF is_str(contexto_old) /\ strip(contexto_old[2]) # <<>>
            THEN << strip(contexto_old[2]) >> ELSE <<>>)
        \o (IF is_list(insights_old) /\ py_bool(insights_old)
            THEN << join_list(insights_old).data >> ELSE <<>>),
        LAMBDA p : p # <<>>)

\* "Explicación generada automáticamente."
Placeholder == JStr(<<"Explicación", " ", "generada", " ", "automáticamente.">>)

\* # Fallback desde el esquema antiguo
normalize_legacy(explanation_data, slide_number) ==
    LET titulo_old == dict_get(explanation_data, "titulo", slide_title(slide_number))
        contenido_clave_old == dict_get(explanation_data, "contenido_clave", JList(<<>>))
        contexto_old == dict_get(explanation_data, "contexto", JStr(<<>>))
        insights_old == dict_get(explanation_data, "insights", JList(<<>>))
        resumen_old == dict_get(explanation_data, "resumen", JStr(<<>>))
        from_resumen == is_str(resumen_old) /\ strip(resumen_old[2]) # <<>>
        joins == (IF is_list(contenido_clave_old) /\ py_bool(contenido_clave_old)
                  THEN <<join_list(contenido_clave_old)>> ELSE <<>>)
                 \o (IF is_list(insights_old) /\ py_bool(insights_old)
                     THEN <<join_list(insights_old)>> ELSE <<>>)
        explicacion_didactica_new ==
            IF from_resumen THEN JStr(strip(resumen_old[2]))
            ELSE JStr(strip(join(legacy_parts(contenido_clave_old, contexto_old,
                                              insights_old))))
    IN  IF ~from_resumen /\ \E i \in 1..Len(joins) : ~joins[i].ok
        THEN joins[CHOOSE i \in 1..Len(joins) :
                       ~joins[i].ok /\ \A k \in 1..(i - 1) : joins[k].ok]
        ELSE parsed(
            [ titulo |-> titulo_old,
              explicacion_didactica |-> py_or(explicacion_didactica_new, Placeholder),
              puntos_clave |-> IF is_list(contenido_clave_old)
                               THEN contenido_clave_old ELSE JList(<<>>),
              conexiones |-> IF is_str(contexto_old) THEN contexto_old ELSE JStr(<<>>),
              resumen_corto |-> IF is_str(resumen_old) THEN resumen_old ELSE JStr(<<>>),
              anki_cards |->
                  py_or(dict_get(explanation_data, "anki_cards", JList(<<>>)),
                        JList(<<>>)) ])

\* # Si ya viene en el esquema nuevo, lo usamos tal cual
normalize_canonical(explanation_data) ==
    [ titulo |-> dict_get(explanation_data, "titulo", JStr(<<>>)),
      explicacion_didactica |->
          dict_get(explanation_data, "explicacion_didactica", JStr(<<>>)),
      puntos_clave |->
          py_or(dict_get(explanation_data, "puntos_clave", JList(<<>>)), JList(<<>>)),
      conexiones |-> dict_get(explanation_data, "conexiones", JStr(<<>>)),
      resumen_corto |-> dict_get(explanation_data, "resumen_corto", JStr(<<>>)),
      anki_cards |->
          py_or(dict_get(explanation_data, "anki_cards", JList(<<>>)), JList(<<>>)) ]

\* all(k in explanation_data for k in [...]) and the branch it selects; a
\* value that is no dict raises either there or at its first .get
normalize_schema(explanation_data, slide_number) ==
    IF explanation_data[1] \in {"null", "bool", "num"}
    THEN raised("argument of type '" \o type_name(explanation_data)
                \o "' is not iterable")
    ELSE IF ~is_dict(explanation_data) THEN raised(no_get(explanation_data))
    ELSE IF \A i \in 1..Len(CanonicalKeys) : has_key(explanation_data, CanonicalKeys[i])
    THEN parsed(normalize_canonical(explanation_data))
    ELSE normalize_legacy(explanation_data, slide_number)

\* the try block of explain_slide from the reply's text on, and its except
\* clause
explain_slide_ui(content, slide_number) ==
    LET normalized == normalize_schema(extract_json_safe(content, slide_number),
                                       slide_number)
    IN  IF normalized.ok
        THEN [success |-> TRUE, slide_number |-> slide_number,
              explanation |-> normalized.data, raw_response |-> JText(content)]
        ELSE slide_failure(slide_number,
                           "Error analyzing slide " \o ToString(slide_number)
                           \o ": " \o normalized.error)

----------------------------------------------------------------------------
(* storage.py *)

\* s3_client.generate_presigned_url('get_object', ..., ExpiresIn=expiration)
presigned_url(s3_key, expiration) ==
    "https://s3/" \o BUCKET_NAME[1] \o "/" \o s3_key \o "?Expires=" \o ToString(expiration)

\* expiration=86400  # 24 hours
UrlExpiration == 86400

----------------------------------------------------------------------------
(* pipeline.py: process_lecture, one step per call it makes.  A task holds *)
(* the event loop from its start to its first await that suspends          *)
(* (client.post in send_callback): process_lecture awaits nothing.         *)

\* (output keys that do not name the job)
output_keys_shared(job_id) ==
    << "outputs/summary.json", "outputs/lecture.docx", "outputs/lecture.apkg" >>

\* the three output keys, in upload order
output_keys(job_id) ==
    << "outputs/" \o job_id \o "/summary.json",
       "outputs/" \o job_id \o "/lecture.docx",
       "outputs/" \o job_id \o "/lecture.apkg" >>

NoLocals ==
    [slides |-> 0, explanations |-> <<>>, summary |-> <<>>, uploaded |-> <<>>,
     urls |-> <<>>]

new_task(job_id, s3_key, email, language) ==
    [job_id |-> job_id, s3_key |-> s3_key, email |-> email, language |-> language,
     pc |-> "queued", locals |-> NoLocals, result |-> <<>>, exc |-> <<>>,
     calls |-> <<>>, log |-> <<>>, raised_at |-> <<>>, caught |-> <<>>]

\* observer: the calls a run of process_lecture has made, in the order made,
\* kept while it runs and once it has returned; k is the slide number of an
\* explain_slide call, the position (1..3) of an upload or presign call, and
\* 0 otherwise
called(task, op, k) == [task EXCEPT !.log = Append(@, <<op, k>>)]

\* an exception leaves process_lecture: its locals are gone, and the except
\* clause of process_job_background has caught e
\* (two observers: raised_at is the call the exception came from, the last
\* call of the run, which stands for the run's log from then on; caught is
\* the message of the exception the except clause caught)
raise_in_try(task, message) ==
    [task EXCEPT !.pc = "except", !.locals = NoLocals, !.exc = <<message>>,
                 !.raised_at = << task.log[Len(task.log)] >>, !.log = <<>>,
                 !.caught = <<message>>]

download_from_s3(task, ok) ==
    LET now == called(task, "download", 0)
    IN  IF ~Truthy(BUCKET_NAME)
        THEN raise_in_try(now, "S3_BUCKET environment variable not set")
        ELSE IF ok THEN [now EXCEPT !.pc = "extract"]
        ELSE raise_in_try(now, "S3 download failed: ClientError")

\* (an extraction whose empty result is not checked)
extract_slides_from_pdf_unchecked(task, pages) ==
    IF pages = -1
    THEN raise_in_try(called(task, "extract", 0), "cannot open document")
    ELSE [called(task, "extract", 0) EXCEPT
              !.pc = IF pages = 0 THEN "build" ELSE "explain",
              !.locals.slides = pages]

\* pages = -1: fitz raises; otherwise the number of pages rendered
extract_slides_from_pdf(task, pages) ==
    LET now == called(task, "extract", 0)
    IN  IF pages = -1 THEN raise_in_try(now, "cannot open document")
        ELSE IF pages = 0 THEN raise_in_try(now, "No slides extracted from PDF")
        ELSE [now EXCEPT !.pc = "explain", !.locals.slides = pages]

\* get_openai_client() raises when the client is not yet built and the key
\* is missing
client_raises == ~openai_client /\ ~Truthy(getenv("OPENAI_API_KEY"))

explain_slide(task, reply) ==
    LET slide_num == Len(task.locals.explanations) + 1
        explanation == explain_result(reply, slide_num)
        now == called(task, "explain", slide_num)
    IN  IF client_raises
        THEN raise_in_try(now, "OPENAI_API_KEY not set")
        ELSE [now EXCEPT !.locals.explanations = Append(@, explanation),
                          !.pc = IF slide_num = task.locals.slides
                                 THEN "build" ELSE "explain"]

\* (a pipeline that presigns the keys before uploading to them)
generate_outputs_then_presign(task, ok) ==
    IF ok THEN [called(task, "build", 0) EXCEPT !.pc = "presign"]
    ELSE raise_in_try(called(task, "build", 0), "artifact build failed")

\* generate_summary_json, generate_docx, generate_anki_package
\* (ok: the file system fails neither generate_docx nor
\* generate_anki_package)
generate_outputs(task, ok) ==
    LET now == called(task, "build", 0)
        summary_json == generate_summary_json(task.locals.explanations)
        anki == generate_anki_package(task.locals.explanations, "none").result
    IN  IF ~summary_json.ok THEN raise_in_try(now, summary_json.error)
        ELSE IF ~ok THEN raise_in_try(now, "artifact build failed")
        ELSE IF ~anki.ok THEN raise_in_try(now, anki.error)
        ELSE [now EXCEPT !.pc = "upload", !.locals.summary = <<summary_json.data>>]

upload_to_s3(task, ok) ==
    LET s3_key == output_keys(task.job_id)[Len(task.locals.uploaded) + 1]
        now == called(task, "upload", Len(task.locals.uploaded) + 1)
    IN  IF ~Truthy(BUCKET_NAME)
        THEN raise_in_try(now, "S3_BUCKET environment variable not set")
        ELSE IF ok
        THEN [now EXCEPT !.locals.uploaded = Append(@, s3_key),
                          !.pc = IF Len(task.locals.uploaded) + 1 = 3
                                 THEN "presign" ELSE "upload"]
        ELSE raise_in_try(now, "S3 upload failed: ClientError")

\* the put_object call of an upload_to_s3 call that took task t from before
\* to after: one write of the key it added to its uploads, none when it
\* raised before or in put_object
put_objects(t, before, after) ==
    IF Len(after.locals.uploaded) > Len(before.locals.uploaded)
    THEN << [key |-> after.locals.uploaded[Len(after.locals.uploaded)], task |-> t] >>
    ELSE <<>>

\* the dict process_lecture returns
pipeline_result(urls, total_slides) ==
    << <<"summary_json_url", JsonStr(urls[1])>>,
       <<"docx_url", JsonStr(urls[2])>>,
       <<"anki_url", JsonStr(urls[3])>>,
       <<"total_slides", JsonInt(total_slides)>> >>

generate_presigned_url(task, ok) ==
    LET s3_key == output_keys(task.job_id)[Len(task.locals.urls) + 1]
        urls == Append(task.locals.urls, presigned_url(s3_key, UrlExpiration))
        now == called(task, "presign", Len(urls))
    IN  IF ~Truthy(BUCKET_NAME)
        THEN raise_in_try(now, "S3_BUCKET environment variable not set")
        ELSE IF ~ok
        THEN raise_in_try(now, "Presigned URL generation failed: ClientError")
        ELSE IF Len(urls) < 3
        THEN [now EXCEPT !.locals.urls = urls]
        ELSE [now EXCEPT !.pc = "callback", !.locals = NoLocals,
                          !.result = pipeline_result(urls, task.locals.slides)]

----------------------------------------------------------------------------
(* main.py *)

\* where a task stands once its current send_callback call is in state call
process_job_background(task, call) ==
    LET calls == IF task.pc \in {"callback", "except"}
                 THEN Append(task.calls, call)
                 ELSE [task.calls EXCEPT ![Len(task.calls)] = call]
    IN  IF call.result \in {"posting", "sleeping", "closing"}
        THEN [task EXCEPT !.calls = calls, !.pc = "suspended"]
        ELSE IF call.result = "returned"
        THEN [task EXCEPT !.calls = calls, !.pc = "done"]
        ELSE IF call.site = "try"
        THEN [task EXCEPT !.calls = calls, !.pc = "except", !.exc = <<call.exc>>,
                          !.raised_at = << <<"callback", 0>> >>, !.caught = <<call.exc>>]
        ELSE [task EXCEPT !.calls = calls, !.pc = "raised", !.exc = <<call.exc>>]

\* (a failure callback that hides the exception's message)
callback_call_generic_message(task) ==
    IF task.pc = "callback"
    THEN send_callback("try", task.job_id, "completed", task.result, <<>>)
    ELSE send_callback("except", task.job_id, "failed", <<>>,
                       << <<"message", JsonStr("Processing failed")>>,
                          <<"code", JsonStr("PROCESSING_ERROR")>> >>)

\* the send_callback call process_job_background makes at task.pc
callback_call(task) ==
    IF task.pc = "callback"
    THEN send_callback("try", task.job_id, "completed", task.result, <<>>)
    ELSE send_callback("except", task.job_id, "failed", <<>>,
                       << <<"message", JsonStr(task.exc[1])>>,
                          <<"code", JsonStr("PROCESSING_ERROR")>> >>)

\* FastAPI's status code for a handler that returns (no status_code is
\* given to @app.post)
DefaultStatusCode == 200

\* pydantic's ProcessRequest: jobId, s3Key and email are required fields
ProcessRequest_valid(body) ==
    body.jobId # None /\ body.s3Key # None /\ body.email # None

ProcessRequest(body) ==
    [jobId |-> body.jobId[1], s3Key |-> body.s3Key[1], email |-> body.email[1],
     language |-> IF body.language = None THEN "Spanish" ELSE body.language[1]]

\* mutant: the task is queued before the inputs are validated
process_endpoint_queues_first(request) ==
    LET language == IF request.language # "" THEN request.language ELSE "Spanish"
        queued == << new_task(request.jobId, request.s3Key, request.email, language) >>
    IN  IF request.jobId = "" \/ request.s3Key = "" \/ request.email = ""
        THEN [status_code |-> 400,
              body |-> << <<"detail", "Missing required fields: jobId, s3Key, email">> >>,
              add_task |-> queued]
        ELSE [status_code |-> DefaultStatusCode,
              body |-> << <<"jobId", request.jobId>>, <<"status", "accepted">>,
                          <<"message", "Processing started">> >>,
              add_task |-> queued]

\* (a handler that schedules no second task for a job identifier it has
\* already scheduled one for)
process_endpoint_once_per_job(request) ==
    LET language == IF request.language # "" THEN request.language ELSE "Spanish"
    IN  IF request.jobId = "" \/ request.s3Key = "" \/ request.email = ""
        THEN [status_code |-> 400,
              body |-> << <<"detail", "Missing required fields: jobId, s3Key, email">> >>,
              add_task |-> <<>>]
        ELSE [status_code |-> DefaultStatusCode,
              body |-> << <<"jobId", request.jobId>>, <<"status", "accepted">>,
                          <<"message", "Processing started">> >>,
              add_task |-> IF \E t \in 1..Len(tasks) : tasks[t].job_id = request.jobId
                           THEN <<>>
                           ELSE << new_task(request.jobId, request.s3Key,
                                            request.email, language) >>]

\* the handler: its response and the tasks it hands to background_tasks
process_endpoint(request) ==
    LET language == IF request.language # "" THEN request.language ELSE "Spanish"
    IN  IF request.jobId = "" \/ request.s3Key = "" \/ request.email = ""
        THEN [status_code |-> 400,
              body |-> << <<"detail", "Missing required fields: jobId, s3Key, email">> >>,
              add_task |-> <<>>]
        ELSE [status_code |-> DefaultStatusCode,
              body |-> << <<"jobId", request.jobId>>, <<"status", "accepted">>,
                          <<"message", "Processing started">> >>,
              add_task |-> << new_task(request.jobId, request.s3Key,
                                       request.email, language) >>]

\* POST /process as FastAPI serves it: 422 when the body does not validate
post_process(body) ==
    IF ~ProcessRequest_valid(body)
    THEN [status_code |-> 422, body |-> << <<"detail", "field required">> >>,
          add_task |-> <<>>]
    ELSE process_endpoint(ProcessRequest(body))

health_check ==
    LET missing == missing_vars(required_vars)
    IN  IF missing # <<>>
        THEN [status_code |-> 503,
              body |-> << <<"detail", "Missing env vars: " \o ReprList(missing)>> >>,
              missing |-> missing]
        ELSE [status_code |-> 200,
              body |-> << <<"status", "healthy">>, <<"version", "1.0.0">> >>,
              missing |-> <<>>]

----------------------------------------------------------------------------
(* The state machine *)

NoBody == [jobId |-> None, s3Key |-> None, email |-> None, language |-> None]

\* the last HTTP exchange: the request's path and JSON body, the response's
\* status code and body (missing: the list health_check reports)
NoResponse == [path |-> "", request |-> NoBody, status_code |-> 0, body |-> <<>>,
               missing |-> <<>>]

\* JSON bodies of POST /process: each field absent, empty or given
Bodies == [jobId : {None, <<"">>} \cup {<<j>> : j \in JobIds},
           s3Key : {None, <<"">>, <<"uploads/a.pdf">>},
           email : {None, <<"">>, <<"u@x.com">>},
           language : {None, <<"">>, <<"English">>}]

Complete(body) ==
    Truthy(body.jobId) /\ Truthy(body.s3Key) /\ Truthy(body.email)

\* the bodies jobs are run with: the complete ones, and those of job "j1"
\* with one required field absent or empty; language is left to its default
JobBodies ==
    { b \in Bodies :
        /\ b.language = None
        /\ \/ Complete(b)
           \/ /\ b.jobId \in {None, <<"">>, <<"j1">>}
              /\ Cardinality({f \in {"jobId", "s3Key", "email"} : ~Truthy(b[f])}) = 1 }

\* the replies of the model one job chooses from: the API call raises, a
\* canonical object with one flashcard, and a canonical object whose
\* flashcard list holds a string
Flashcard ==
    JObj(<< <<"pregunta", JStr(<<"Q">>)>>, <<"respuesta", JStr(<<"A">>)>> >>)

CanonicalReply(cards) ==
    JObj(<< <<"titulo", JStr(<<"T">>)>>,
            <<"explicacion_didactica", JStr(<<"E">>)>>,
            <<"puntos_clave", JList(<< JStr(<<"P">>) >>)>>,
            <<"conexiones", JStr(<<"C">>)>>,
            <<"resumen_corto", JStr(<<"R">>)>>,
            <<"anki_cards", cards>> >>)

returns(content) == [exc |-> <<>>, content |-> content]

SlideReplies ==
    { [exc |-> <<"Connection error.">>, content |-> <<>>],
      returns(<< <<"json", CanonicalReply(JList(<<Flashcard>>))>> >>),
      returns(<< <<"json", CanonicalReply(JList(<< JStr(<<"Q">>) >>))>> >>) }

----------------------------------------------------------------------------
(* explain_slide on one reply: the worker's (pipeline.py) and the UI's     *)
(* (slide_explainer_no_api.py), each applied once to the same text         *)

\* the values a canonical key holds in the replies tried: every type with
\* a falsy and a truthy value under puntos_clave, four values under the
\* other keys
AllValues ==
    { JNull, JBool(FALSE), JBool(TRUE), JNum(0), JNum(7), JStr(<<>>), JStr(<<"x">>),
      JList(<<>>), JList(<< JStr(<<"a">>) >>), JObj(<<>>),
      JObj(<< <<"k", JStr(<<"v">>)>> >>) }

CanonicalValues(key) ==
    IF key = "puntos_clave" THEN AllValues
    ELSE { JNull, JStr(<<>>), JStr(<<"x">>), JList(<< JStr(<<"a">>) >>) }

\* objects with all five canonical keys
CanonicalObjects ==
    { JObj([i \in 1..Len(CanonicalKeys) |-> <<CanonicalKeys[i], f[i]>>]) :
          f \in { g \in [1..Len(CanonicalKeys) -> AllValues] :
                      \A i \in 1..Len(CanonicalKeys) :
                          g[i] \in CanonicalValues(CanonicalKeys[i]) } }

\* objects with some of the canonical keys, and with flashcards
PartialObjects ==
    { JObj(SelectSeq(CanonicalReply(JList(<<Flashcard>>))[2],
                     LAMBDA pair : pair[1] \in keys)) :
          keys \in SUBSET (Range(CanonicalKeys) \cup {"anki_cards"}) }

LegacyKeys == <<"titulo", "contenido_clave", "contexto", "insights", "resumen">>

\* the values a legacy key holds in the replies tried
LegacyValues(key) ==
    CASE key = "titulo" -> { JStr(<<>>), JStr(<<"T">>) }
      [] key = "contenido_clave" ->
             { JList(<<>>), JList(<< JStr(<<"a">>), JStr(<<"b">>) >>),
               JList(<< JStr(<<" ">>) >>), JList(<< JNum(1) >>) }
      [] key = "contexto" -> { JStr(<<>>), JStr(<<"c">>), JStr(<<" ", "c", " ">>) }
      [] key = "insights" -> { JList(<<>>), JList(<< JStr(<<"i">>) >>) }
      [] OTHER -> { JNull, JStr(<<>>), JStr(<<" ">>), JStr(<<"r">>),
                    JStr(<<" ", "r", " ">>) }

\* objects with the five legacy keys
LegacyObjects ==
    { JObj([i \in 1..Len(LegacyKeys) |-> <<LegacyKeys[i], f[i]>>]) :
          f \in { g \in [1..Len(LegacyKeys) -> UNION {LegacyValues(LegacyKeys[i]) :
                                                        i \in 1..Len(LegacyKeys)}] :
                      \A i \in 1..Len(LegacyKeys) : g[i] \in LegacyValues(LegacyKeys[i]) } }

\* a flat canonical object and a flat legacy object, for the texts that
\* wrap or damage an object
FlatCanonical ==
    JObj([i \in 1..Len(CanonicalKeys) |-> <<CanonicalKeys[i], JStr(<<"x">>)>>])

FlatLegacy ==
    JObj(<< <<"titulo", JStr(<<"T">>)>>, <<"contenido_clave", JList(<< JNum(1) >>)>>,
            <<"contexto", JStr(<<"c">>)>>, <<"insights", JList(<<>>)>>,
            <<"resumen", JStr(<<>>)>> >>)

\* the texts that are not one JSON object
OtherContents ==
    { <<>>,
      << <<"prose", "Sorry">> >>,
      << <<"json", JList(<< JNum(1) >>)>> >>,
      << <<"json", JNum(7)>> >>,
      << <<"json", JStr(<<"x">>)>> >>,
      << <<"json", JNull>> >>,
      << <<"json", JBool(TRUE)>> >>,
      << <<"prose", "Here">>, <<"json", FlatCanonical>> >>,
      << <<"prose", "Here">>, <<"json", FlatLegacy>> >>,
      << <<"json", FlatCanonical>>, <<"prose", "and">>, <<"json", FlatCanonical>> >>,
      << <<"fence", "json">>, <<"json", FlatCanonical>>, <<"fence", "">> >>,
      << <<"fence", "">>, <<"json", FlatCanonical>>, <<"fence", "">> >>,
      << <<"fence", "json">>, <<"cut", FlatCanonical>>, <<"fence", "">> >>,
      << <<"fence", "json">>, <<"echo", "titulo">>, <<"fence", "">>,
         <<"json", FlatCanonical>> >>,
      << <<"tail", FlatCanonical>> >>,
      << <<"qtail", FlatCanonical>> >>,
      << <<"tail", FlatCanonical>>, <<"prose", "end">> >>,
      << <<"cut", FlatCanonical>> >>,
      << <<"echo", "titulo">> >>,
      << <<"echo", "titulo">>, <<"prose", "Sorry">> >>,
      << <<"tail", FlatCanonical>>, <<"cut", FlatCanonical>> >> }

Contents ==
    { << <<"json", o>> >> : o \in CanonicalObjects \cup PartialObjects \cup LegacyObjects }
    \cup OtherContents

\* no reply under test
\* (worker_json and ui_json observe what each function's recovery chain
\* extracted from the text)
NoCall == [content |-> <<>>, slide_number |-> 0, worker |-> <<>>, ui |-> <<>>,
           worker_json |-> <<>>, ui_json |-> <<>>]

\* no explanation list under test
NoBuild == [explanations |-> <<>>, summary |-> <<>>, package |-> <<>>,
            docx |-> <<>>, files |-> {}]

InitWith(envs) ==
    /\ nz = NoCall
    /\ ab = NoBuild
    /\ env \in envs
    /\ openai_client = FALSE
    /\ s3 = <<>>
    /\ nreq = 0
    /\ response = NoResponse
    /\ tasks = <<>>
    /\ loop = 0

Init == InitWith(JobEnvs)

\* POST /process with one of the given bodies
PostProcess(bodies) ==
    /\ loop = 0
    /\ nreq < MaxRequests
    /\ \E body \in bodies :
         LET r == post_process(body)
         IN  /\ response' = [path |-> "/process", request |-> body,
                             status_code |-> r.status_code,
                             body |-> r.body, missing |-> <<>>]
             /\ tasks' = tasks \o r.add_task
    /\ nreq' = nreq + 1
    /\ UNCHANGED <<ab, nz, env, openai_client, s3, loop>>

\* GET /health
GetHealth ==
    /\ loop = 0
    /\ nreq < MaxRequests
    /\ response' = [path |-> "/health", request |-> NoBody,
                    status_code |-> health_check.status_code,
                    body |-> health_check.body, missing |-> health_check.missing]
    /\ nreq' = nreq + 1
    /\ UNCHANGED <<ab, nz, env, openai_client, s3, tasks, loop>>

Running(t, pc) == t \in 1..Len(tasks) /\ loop = t /\ tasks[t].pc = pc

\* the event loop starts a scheduled background task
StartTask ==
    \E t \in 1..Len(tasks) :
      /\ loop = 0
      /\ tasks[t].pc = "queued"
      /\ tasks' = [tasks EXCEPT ![t].pc = "download"]
      /\ loop' = t
      /\ UNCHANGED <<ab, nz, env, openai_client, s3, nreq, response>>

Download ==
    \E t \in 1..Len(tasks), ok \in BOOLEAN :
      /\ Running(t, "download")
      /\ tasks' = [tasks EXCEPT ![t] = download_from_s3(@, ok)]
      /\ UNCHANGED <<ab, nz, env, openai_client, s3, nreq, response, loop>>

Extract ==
    \E t \in 1..Len(tasks), pages \in -1..MaxSlides :
      /\ Running(t, "extract")
      /\ tasks' = [tasks EXCEPT ![t] = extract_slides_from_pdf(@, pages)]
      /\ UNCHANGED <<ab, nz, env, openai_client, s3, nreq, response, loop>>

Explain ==
    \E t \in 1..Len(tasks), reply \in SlideReplies :
      /\ Running(t, "explain")
      /\ tasks' = [tasks EXCEPT ![t] = explain_slide(@, reply)]
      /\ openai_client' = (openai_client \/ ~client_raises)
      /\ UNCHANGED <<ab, nz, env, s3, nreq, response, loop>>

Build ==
    \E t \in 1..Len(tasks), ok \in BOOLEAN :
      /\ Running(t, "build")
      /\ tasks' = [tasks EXCEPT ![t] = generate_outputs(@, ok)]
      /\ UNCHANGED <<ab, nz, env, openai_client, s3, nreq, response, loop>>

Upload ==
    \E t \in 1..Len(tasks), ok \in BOOLEAN :
      /\ Running(t, "upload")
      /\ tasks' = [tasks EXCEPT ![t] = upload_to_s3(@, ok)]
      /\ s3' = s3 \o put_objects(t, tasks[t], tasks'[t])
      /\ UNCHANGED <<ab, nz, env, openai_client, nreq, response, loop>>

Presign ==
    \E t \in 1..Len(tasks), ok \in BOOLEAN :
      /\ Running(t, "presign")
      /\ tasks' = [tasks EXCEPT ![t] = generate_presigned_url(@, ok)]
      /\ UNCHANGED <<ab, nz, env, openai_client, s3, nreq, response, loop>>

\* the task keeps the event loop exactly while it is in the except clause,
\* about to call send_callback again
Yield(t) == loop' = IF tasks'[t].pc = "except" THEN t ELSE 0

\* process_job_background calls send_callback, which runs to its first
\* client.post or raises
Callback ==
    \E t \in 1..Len(tasks) :
      /\ loop = t
      /\ tasks[t].pc \in {"callback", "except"}
      /\ tasks' = [tasks EXCEPT ![t] = process_job_background(@, callback_call(@))]
      /\ Yield(t)
      /\ UNCHANGED <<ab, nz, env, openai_client, s3, nreq, response>>

\* a client.post ends; when the call leaves the loop by it, the client is
\* closed on the way out
PostReturns ==
    \E t \in 1..Len(tasks), outcome \in Outcomes, kept \in BOOLEAN :
      /\ loop = 0
      /\ tasks[t].pc = "suspended"
      /\ tasks[t].calls[Len(tasks[t].calls)].result = "posting"
      /\ tasks' = [tasks EXCEPT ![t] = process_job_background(@,
                       client_aexit(after_post(@.calls[Len(@.calls)], outcome), kept))]
      /\ Yield(t)
      /\ UNCHANGED <<ab, nz, env, openai_client, s3, nreq, response>>

\* the client's __aexit__ ends
ClientCloses ==
    \E t \in 1..Len(tasks) :
      /\ loop = 0
      /\ tasks[t].pc = "suspended"
      /\ tasks[t].calls[Len(tasks[t].calls)].result = "closing"
      /\ tasks' = [tasks EXCEPT ![t] = process_job_background(@,
                       after_close(@.calls[Len(@.calls)]))]
      /\ Yield(t)
      /\ UNCHANGED <<ab, nz, env, openai_client, s3, nreq, response>>

\* an asyncio.sleep ends
SleepReturns ==
    \E t \in 1..Len(tasks) :
      /\ loop = 0
      /\ tasks[t].pc = "suspended"
      /\ tasks[t].calls[Len(tasks[t].calls)].result = "sleeping"
      /\ tasks' = [tasks EXCEPT ![t] = process_job_background(@,
                       after_sleep(@.calls[Len(@.calls)]))]
      /\ Yield(t)
      /\ UNCHANGED <<ab, nz, env, openai_client, s3, nreq, response>>

Next ==
    \/ PostProcess(JobBodies)
    \/ StartTask
    \/ Download
    \/ Extract
    \/ Explain
    \/ Build
    \/ Upload
    \/ Presign
    \/ Callback
    \/ PostReturns
    \/ ClientCloses
    \/ SleepReturns

Spec == Init /\ [][Next]_vars

\* two clients: one POST /process per job identifier, or two for the same
\* identifier, each with a complete body, in the configured environment
PairBodies == { b \in JobBodies : Complete(b) }

InitPair == InitWith({FullEnv})

PostProcessPair ==
    /\ loop = 0
    /\ nreq < Cardinality(JobIds)
    /\ \E body \in PairBodies :
         LET r == post_process(body)
         IN  /\ response' = [path |-> "/process", request |-> body,
                             status_code |-> r.status_code,
                             body |-> r.body, missing |-> <<>>]
             /\ tasks' = tasks \o r.add_task
    /\ nreq' = nreq + 1
    /\ UNCHANGED <<ab, nz, env, openai_client, s3, loop>>

NextPair ==
    \/ PostProcessPair
    \/ StartTask
    \/ Download
    \/ Extract
    \/ Explain
    \/ Build
    \/ Upload
    \/ Presign
    \/ Callback
    \/ PostReturns
    \/ ClientCloses
    \/ SleepReturns

SpecPair == InitPair /\ [][NextPair]_vars

\* one accepted job under a fair event loop, in the environments where the
\* callback URL and secret are configured: the loop runs a step whenever
\* one can run, and every call a task waits on returns or raises
LiveEnvs == { e \in JobEnvs : /\ Truthy(e["WORKER_CALLBACK_URL"])
                              /\ Truthy(e["WORKER_CALLBACK_SECRET"]) }

InitLive == InitWith(LiveEnvs)

PostProcessLive ==
    /\ loop = 0
    /\ tasks = <<>>
    /\ \E body \in PairBodies :
         LET r == post_process(body)
         IN  /\ response' = [path |-> "/process", request |-> body,
                             status_code |-> r.status_code,
                             body |-> r.body, missing |-> <<>>]
             /\ tasks' = tasks \o r.add_task
    /\ nreq' = nreq + 1
    /\ UNCHANGED <<ab, nz, env, openai_client, s3, loop>>

NextLive ==
    \/ PostProcessLive
    \/ StartTask
    \/ Download
    \/ Extract
    \/ Explain
    \/ Build
    \/ Upload
    \/ Presign
    \/ Callback
    \/ PostReturns
    \/ ClientCloses
    \/ SleepReturns

SpecLive == InitLive /\ [][NextLive]_vars /\ WF_vars(NextLive)

\* the two endpoints alone, in every environment and with every body
InitHttp == InitWith(Envs)

NextHttp ==
    \/ PostProcess(Bodies)
    \/ GetHealth

SpecHttp == InitHttp /\ [][NextHttp]_vars

\* the two explain_slide functions alone, on every text of Contents
InitNormalize ==
    /\ env = FullEnv
    /\ openai_client = FALSE
    /\ s3 = <<>>
    /\ nreq = 0
    /\ response = NoResponse
    /\ tasks = <<>>
    /\ loop = 0
    /\ ab = NoBuild
    /\ nz \in { [NoCall EXCEPT !.content = content, !.slide_number = slide_number] :
                    content \in Contents, slide_number \in 1..MaxSlides }

\* pipeline.py's explain_slide on the reply
ExplainWorker ==
    /\ nz.slide_number > 0
    /\ nz.worker = <<>>
    /\ nz' = [nz EXCEPT !.worker = << explain_result(returns(nz.content),
                                                     nz.slide_number) >>,
                        !.worker_json = << extract_json(nz.content) >>]
    /\ openai_client' = (openai_client \/ ~client_raises)
    /\ UNCHANGED <<ab, env, s3, nreq, response, tasks, loop>>

\* slide_explainer_no_api.py's explain_slide on the reply
ExplainUI ==
    /\ nz.slide_number > 0
    /\ nz.ui = <<>>
    /\ nz' = [nz EXCEPT !.ui = << explain_slide_ui(nz.content, nz.slide_number) >>,
                        !.ui_json = << extract_json_safe(nz.content, nz.slide_number) >>]
    /\ UNCHANGED <<ab, env, openai_client, s3, nreq, response, tasks, loop>>

NextNormalize ==
    \/ ExplainWorker
    \/ ExplainUI

SpecNormalize == InitNormalize /\ [][NextNormalize]_vars

----------------------------------------------------------------------------
(* the artifact builders on one list of explanations: generate_summary_json, *)
(* generate_docx and generate_anki_package, each applied once to the list   *)

BlankCard ==
    JObj(<< <<"pregunta", JStr(<<" ">>)>>, <<"respuesta", JStr(<<"A">>)>> >>)

PaddedCard ==
    JObj(<< <<"pregunta", JStr(<<" ", "Q2", " ">>)>>,
            <<"respuesta", JStr(<<"A2">>)>> >>)

\* the values of anki_cards in the replies tried: lists of well-formed,
\* blank and incomplete cards, and ill-typed values
CardLists ==
    { JList(<<>>),
      JList(<<Flashcard>>),
      JList(<<Flashcard, BlankCard>>),
      JList(<< PaddedCard, JObj(<< <<"pregunta", JStr(<<"Q">>)>> >>) >>),
      JList(<< JStr(<<"Q">>) >>),
      JList(<< JObj(<< <<"pregunta", JNull>>, <<"respuesta", JStr(<<"A">>)>> >>) >>),
      JStr(<<"x">>),
      JNum(7) }

\* the replies one slide of the list was analysed from: the API call
\* raised, or it returned a canonical object
BuildReplies ==
    { [exc |-> <<"Connection error.">>, content |-> <<>>] }
    \cup { returns(<< <<"json", CanonicalReply(cards)>> >>) : cards \in CardLists }
    \cup { returns(<< <<"json", JObj(<< <<"titulo", JNull>>,
                                         <<"anki_cards", JList(<<Flashcard>>)>> >>)>> >>) }

\* the explanation lists process_lecture can hold after its loop
ExplanationLists ==
    UNION { { [i \in 1..n |-> explain_result(f[i], i)] : f \in [1..n -> BuildReplies] } :
                n \in 1..MaxSlides }

InitBuild ==
    /\ env = FullEnv
    /\ openai_client = FALSE
    /\ s3 = <<>>
    /\ nreq = 0
    /\ response = NoResponse
    /\ tasks = <<>>
    /\ loop = 0
    /\ nz = NoCall
    /\ ab \in { [NoBuild EXCEPT !.explanations = explanations] :
                    explanations \in ExplanationLists }

BuildSummary ==
    /\ ab.explanations # <<>>
    /\ ab.summary = <<>>
    /\ ab' = [ab EXCEPT !.summary = << generate_summary_json(ab.explanations) >>]
    /\ UNCHANGED <<nz, env, openai_client, s3, nreq, response, tasks, loop>>

BuildDocx ==
    /\ ab.explanations # <<>>
    /\ ab.docx = <<>>
    /\ \E faults \in [1..Len(ab.explanations) -> ImageFaults],
          raise_at \in 0..(Len(ab.explanations) + 1) :
         LET built == generate_docx(ab.explanations, faults, raise_at)
         IN  ab' = [ab EXCEPT !.docx = << built.result >>,
                              !.files = @ \cup built.files]
    /\ UNCHANGED <<nz, env, openai_client, s3, nreq, response, tasks, loop>>

BuildPackage ==
    /\ ab.explanations # <<>>
    /\ ab.package = <<>>
    /\ \E fault \in PackageFaults :
         LET built == generate_anki_package(ab.explanations, fault)
         IN  ab' = [ab EXCEPT !.package = << built.result >>,
                              !.files = @ \cup built.files]
    /\ UNCHANGED <<nz, env, openai_client, s3, nreq, response, tasks, loop>>

NextBuild ==
    \/ BuildSummary
    \/ BuildDocx
    \/ BuildPackage

SpecBuild == InitBuild /\ [][NextBuild]_vars

----------------------------------------------------------------------------
(* Properties *)

Tasks == 1..Len(tasks)

\* the send_callback calls task t has made so far
CallsOf(t) == Range(tasks[t].calls)

AllCalls == UNION {CallsOf(t) : t \in Tasks}

RECURSIVE SumPosts(_)
SumPosts(calls) ==
    IF calls = <<>> THEN 0 ELSE Len(calls[1].posts) + SumPosts(Tail(calls))

\* the callback POSTs task t has caused
PostsOf(t) == SumPosts(tasks[t].calls)

Min(a, b) == IF a < b THEN a ELSE b

CallbackConfigured ==
    /\ env["WORKER_CALLBACK_URL"] \notin {None, <<"">>}
    /\ env["WORKER_CALLBACK_SECRET"] \notin {None, <<"">>}

\* C1: a job starts one callback attempt-set only: at most one of its
\* send_callback calls posts, and the job causes at most 3 callback POSTs.
C1_OneAttemptSet ==
    \A t \in Tasks :
        /\ Cardinality({i \in 1..Len(tasks[t].calls) :
                            tasks[t].calls[i].posts # <<>>}) <= 1
        /\ PostsOf(t) <= 3

\* C2: the exception send_callback raises when delivery is exhausted never
\* leaves process_job_background.
C2_ExhaustionCaught ==
    \A t \in Tasks :
        ~(tasks[t].pc = "raised" /\ tasks[t].exc = <<"Callback failed after retries">>)

\* the backoff sleeps a call has started after n failed attempts: 1 s after
\* the first, 2 s after the second, none after the third
ExpectedSleeps(n) == SubSeq(<<1, 2>>, 1, Min(n, 2))

\* the call has executed its return (how = "returned") or its raise
\* (how = "raised"): it has left send_callback that way, or is leaving it
\* that way through the exit of the async with block
Ends(c, how) == c.result = how \/ (c.result = "closing" /\ c.leaving = how)

C3_Bounds(c) ==
    /\ Len(c.posts) <= 3
    /\ c.sleeps = ExpectedSleeps(c.failed)

\* C3 as claimed: a send_callback call makes at most 3 POSTs, sleeps 1 s
\* and 2 s after the first two failures, and raises exactly when all 3
\* attempts failed.
C3_RaisesOnlyAfterThree ==
    \A c \in AllCalls :
        /\ C3_Bounds(c)
        /\ Ends(c, "raised") <=> (c.failed = 3)

\* C3 amended: a send_callback call makes at most 3 POSTs, sleeps 1 s and
\* 2 s after the first two failures, and raises exactly when all 3 attempts
\* failed or when the callback URL or secret is not configured; in that
\* case it raises before any POST.
C3_RetryPolicy ==
    \A c \in AllCalls :
        /\ C3_Bounds(c)
        /\ Ends(c, "raised") <=> (c.failed = 3 \/ ~CallbackConfigured)
        /\ ~CallbackConfigured => c.posts = <<>>

\* a call that failed three times, slept 1 s and 2 s and raised
C3_Witness ==
    \E c \in AllCalls :
        c.result = "raised" /\ c.failed = 3 /\ Len(c.posts) = 3 /\ c.sleeps = <<1, 2>>

\* C4: once a POST of a call was answered 200, the call has returned and
\* that POST is its last; no POST and no sleep follows it.
C4_SuccessEndsRetrying ==
    \A c \in AllCalls :
        c.ok_at # 0 =>
            /\ Ends(c, "returned")
            /\ Len(c.posts) = c.ok_at
            /\ Len(c.sleeps) = c.ok_at - 1

\* a call answered 200 on its second attempt, in a task that has ended
C4_Witness ==
    \E t \in Tasks :
        /\ tasks[t].pc = "done"
        /\ \E c \in CallsOf(t) : c.ok_at = 2 /\ c.result = "returned"

Failure(outcome) == outcome.exception \/ outcome.status_code # 200

\* the call task t is in, when it has one
CurrentCall(t) == tasks[t].calls[Len(tasks[t].calls)]

Posting(t) ==
    /\ tasks[t].pc = "suspended"
    /\ CurrentCall(t).result = "posting"

Sleeping(t) ==
    /\ tasks[t].pc = "suspended"
    /\ CurrentCall(t).result = "sleeping"

\* C5: when a POST ends in a non-200 response or in a transport exception,
\* the call counts one more failed attempt and, whichever of the two it
\* was, sleeps 2^(n-1) s and stays in the loop if that was attempt n < 3,
\* and raises the exhaustion error only if it was the third; the sleep is
\* followed by the next POST.
C5_FailuresAlike ==
    [][/\ \A t \in Tasks :
          (Posting(t) /\ tasks'[t] # tasks[t] /\ Failure(tasks'[t].calls[Len(tasks[t].calls)].last))
          => (LET c == CurrentCall(t)
                  d == tasks'[t].calls[Len(tasks[t].calls)]
                  n == Len(c.posts)
             IN  /\ d.failed = c.failed + 1
                 /\ d.posts = c.posts
                 /\ IF n < 3
                    THEN /\ d.result = "sleeping"
                         /\ d.sleeps = Append(c.sleeps, 2 ^ (n - 1))
                         /\ tasks'[t].pc = "suspended"
                    ELSE /\ Ends(d, "raised")
                         /\ d.exc = "Callback failed after retries"
                         /\ d.sleeps = c.sleeps)
       /\ \A t \in Tasks :
          (Sleeping(t) /\ tasks'[t] # tasks[t])
          => LET c == CurrentCall(t)
                 d == tasks'[t].calls[Len(tasks[t].calls)]
             IN  /\ d.result = "posting"
                 /\ Len(d.posts) = Len(c.posts) + 1
                 /\ d.failed = c.failed
                 /\ d.sleeps = c.sleeps]_vars

\* a call whose first attempts failed, the latest by a transport exception,
\* and which is in its backoff sleep
C5_Witness ==
    \E c \in AllCalls :
        c.failed = 2 /\ c.last.exception /\ c.result = "sleeping"

\* C6: every callback POST carries in X-Worker-Signature the hex
\* HMAC-SHA256, under the configured secret, of the bytes it sends as its
\* body, and all POSTs of one call send the same body and signature.
C6_SignatureOverSentBytes ==
    \A c \in AllCalls :
        \A i \in 1..Len(c.posts) :
            /\ c.posts[i].headers.XWorkerSignature =
                   [hmac_sha256 |-> <<[utf8 |-> env["WORKER_CALLBACK_SECRET"][1]],
                                      c.posts[i].content>>]
            /\ c.posts[i] = c.posts[1]

\* a call that has posted three times
C6_Witness ==
    \E c \in AllCalls : Len(c.posts) = 3

AllPresent(body) ==
    /\ body.jobId \notin {None, <<"">>}
    /\ body.s3Key \notin {None, <<"">>}
    /\ body.email \notin {None, <<"">>}

\* C7: POST /process with jobId, s3Key and email present answers 202 with
\* body {jobId, status: "accepted", message}.
C7_Accepted202 ==
    (response.path = "/process" /\ AllPresent(response.request))
    => /\ response.status_code = 202
       /\ response.body = << <<"jobId", response.request.jobId[1]>>,
                             <<"status", "accepted">>,
                             <<"message", "Processing started">> >>

\* C8: POST /process with jobId, s3Key or email absent or empty answers 400.
C8_Rejected400 ==
    (response.path = "/process" /\ ~AllPresent(response.request))
    => response.status_code = 400

\* C9: a POST /process whose jobId, s3Key or email is absent or empty
\* schedules no background task, and is answered with a 4xx status.
C9_RejectedStartsNothing ==
    [][(nreq' # nreq /\ response'.path = "/process" /\ ~AllPresent(response'.request))
       => /\ tasks' = tasks
          /\ response'.status_code \in 400..499]_vars

\* a request with an empty s3Key was answered 400 and no task exists
C9_Witness ==
    /\ nreq = 1
    /\ response.path = "/process"
    /\ response.request.s3Key = <<"">>
    /\ response.status_code = 400
    /\ tasks = <<>>

\* the variables GET /health is claimed to require that are unset or empty
MissingConfig ==
    { v \in { "OPENAI_API_KEY", "AWS_ACCESS_KEY_ID", "AWS_SECRET_ACCESS_KEY",
              "S3_BUCKET", "WORKER_CALLBACK_URL", "WORKER_CALLBACK_SECRET" } :
        env[v] \in {None, <<"">>} }

\* C10: GET /health answers 200 with status "healthy" exactly when none of
\* the six required variables is unset or empty, and otherwise 503 with a
\* detail that lists exactly the missing variables, each once.
C10_Health ==
    response.path = "/health" =>
        IF MissingConfig = {}
        THEN /\ response.status_code = 200
             /\ response.body[1] = <<"status", "healthy">>
        ELSE /\ response.status_code = 503
             /\ Range(response.missing) = MissingConfig
             /\ Len(response.missing) = Cardinality(MissingConfig)
             /\ response.body = << <<"detail", "Missing env vars: "
                                               \o ReprList(response.missing)>> >>

\* a 503 that reports two missing variables, one unset and one empty
C10_Witness ==
    /\ response.path = "/health"
    /\ response.status_code = 503
    /\ Len(response.missing) = 2
    /\ env["S3_BUCKET"] = None
    /\ env["WORKER_CALLBACK_SECRET"] = <<"">>

----------------------------------------------------------------------------
(* the order of the steps of one job *)

PipelineSteps == {"download", "extract", "explain", "build", "upload", "presign"}

IsPrefix(s, t) == Len(s) <= Len(t) /\ SubSeq(t, 1, Len(s)) = s

\* the calls of a process_lecture run over n slides that returns, in the
\* order the claim gives them
OrderedCalls(n) ==
    << <<"download", 0>>, <<"extract", 0>> >>
    \o [i \in 1..n |-> <<"explain", i>>]
    \o << <<"build", 0>> >>
    \o [i \in 1..3 |-> <<"upload", i>>]
    \o [i \in 1..3 |-> <<"presign", i>>]

\* the slide counts a task's run may be over: the count extraction gave
\* while process_lecture holds it, any count once its locals are gone
SlideCounts(task) ==
    IF task.locals.slides > 0 THEN {task.locals.slides} ELSE 0..MaxSlides

\* C11: within one job the calls are made in the order download, extract,
\* explain_slide for slide 1, 2, ..., n, build, three uploads, three
\* presigns, and the callback only after them: the calls made so far are a
\* prefix of that order, the step a running job is at is the next call of
\* that order, no callback is started while process_lecture runs, and a
\* "completed" callback is started only after the whole order was made, the
\* third presign included.
C11_StepOrder ==
    \A t \in Tasks :
        LET task == tasks[t]
        IN  /\ \E n \in SlideCounts(task) :
                   /\ IsPrefix(task.log, OrderedCalls(n))
                   /\ task.pc \in PipelineSteps =>
                          OrderedCalls(n)[Len(task.log) + 1][1] = task.pc
            /\ task.pc \in PipelineSteps => task.calls = <<>>
            /\ \A i \in 1..Len(task.calls) :
                   task.calls[i].status = "completed" =>
                       \E n \in 1..MaxSlides : task.log = OrderedCalls(n)

\* a job over two slides whose "completed" callback was posted after all
\* eleven calls
C11_Witness ==
    \E t \in Tasks :
        /\ tasks[t].log = OrderedCalls(2)
        /\ tasks[t].calls # <<>>
        /\ tasks[t].calls[1].status = "completed"
        /\ tasks[t].calls[1].posts # <<>>

\* C12: an exception raised while one slide is analysed stays inside
\* explain_slide: no exception leaves process_lecture from an explain_slide
\* call, so no job is aborted at the analysis step.
C12_SlideFailureContained ==
    \A t \in Tasks :
        tasks[t].raised_at # <<>> => tasks[t].raised_at[1][1] # "explain"

\* the value the payload dict of a callback holds under key (<<>>: none)
PayloadValue(payload, key) ==
    LET at == { i \in 1..Len(payload) : payload[i][1] = key }
    IN  IF at = {} THEN <<>> ELSE << payload[CHOOSE i \in at : TRUE][2] >>

\* C13: the explanation list holds one entry per analysed slide, in slide
\* order, entry i carrying slide_number i, so that after the loop it holds
\* exactly one entry per extracted slide, failed slides included; the
\* summary's total_slides is the number of extracted slides, and so is the
\* total_slides of the result and of the outputs of the "completed"
\* callback.
C13_OneEntryPerSlide ==
    \A t \in Tasks :
        LET task == tasks[t]
            l == task.locals
        IN  /\ \A i \in 1..Len(l.explanations) : l.explanations[i].slide_number = i
            /\ Len(l.explanations) <= l.slides
            /\ task.pc \in {"build", "upload", "presign"} =>
                   Len(l.explanations) = l.slides
            /\ l.summary # <<>> =>
                   /\ l.summary[1].total_slides = l.slides
                   /\ Len(l.summary[1].slides) =
                          Cardinality({ i \in 1..Len(l.explanations) :
                                            l.explanations[i].success })
            /\ task.result # <<>> =>
                   \E n \in 1..MaxSlides :
                       /\ task.log = OrderedCalls(n)
                       /\ task.result[4] = <<"total_slides", JsonInt(n)>>
            /\ \A i \in 1..Len(task.calls) :
                   task.calls[i].status = "completed" /\ task.calls[i].payload # <<>> =>
                       PayloadValue(task.calls[i].payload, "outputs")
                           = << json_dumps(task.result) >>

\* two slides, the first failed and the second analysed: two entries, a
\* summary of one slide with total_slides 2
C13_Witness ==
    \E t \in Tasks :
        /\ tasks[t].pc = "upload"
        /\ tasks[t].locals.slides = 2
        /\ ~tasks[t].locals.explanations[1].success
        /\ tasks[t].locals.explanations[2].success
        /\ tasks[t].locals.summary[1].total_slides = 2
        /\ Len(tasks[t].locals.summary[1].slides) = 1

\* the keys of a payload dict, in order
PayloadKeys(payload) == [i \in 1..Len(payload) |-> payload[i][1]]

\* C14: every callback payload carries exactly one of outputs and error: a
\* "completed" payload carries outputs (the three URLs and the slide count)
\* and no error, a "failed" payload carries error (message and code) and no
\* outputs.
C14_OutputsXorError ==
    \A t \in Tasks : \A i \in 1..Len(tasks[t].calls) :
        LET call == tasks[t].calls[i]
            outputs == PayloadValue(call.payload, "outputs")
            error == PayloadValue(call.payload, "error")
        IN  call.payload # <<>> =>
                /\ (outputs = <<>>) # (error = <<>>)
                /\ PayloadValue(call.payload, "status") = << JsonStr(call.status) >>
                /\ IF call.status = "completed"
                   THEN /\ PayloadKeys(call.payload) = <<"jobId", "status", "outputs">>
                        /\ PayloadKeys(tasks[t].result) =
                               <<"summary_json_url", "docx_url", "anki_url",
                                 "total_slides">>
                        /\ outputs = << json_dumps(tasks[t].result) >>
                   ELSE /\ call.status = "failed"
                        /\ PayloadKeys(call.payload) = <<"jobId", "status", "error">>
                        /\ error = << json_dumps(
                               << <<"message", JsonStr(tasks[t].caught[1])>>,
                                  <<"code", JsonStr("PROCESSING_ERROR")>> >>) >>

\* a job that posted a "completed" payload and then a "failed" payload
C14_Witness ==
    \E t \in Tasks :
        /\ Len(tasks[t].calls) = 2
        /\ tasks[t].calls[1].status = "completed"
        /\ tasks[t].calls[1].posts # <<>>
        /\ tasks[t].calls[2].status = "failed"
        /\ tasks[t].calls[2].posts # <<>>

\* C15: a job whose slide extraction raised or gave no slide is aborted
\* there: no step after extraction runs over zero slides, and once
\* extraction has failed, extract stays the last call of the job's
\* pipeline: the job is never again at a pipeline step (no explain_slide,
\* no build, no upload, no presign), holds no explanation, summary, upload
\* or URL, has no result, and every callback it starts has status "failed".
C15_ExtractionFailureAborts ==
    \A t \in Tasks :
        LET task == tasks[t]
        IN  /\ task.pc \in {"explain", "build", "upload", "presign"} =>
                   task.locals.slides > 0
            /\ task.raised_at = << <<"extract", 0>> >> =>
                   /\ task.locals = NoLocals
                   /\ task.result = <<>>
                   /\ task.pc \in {"except", "suspended", "done", "raised"}
                   /\ task.pc # "except" => task.calls # <<>>
                   /\ \A i \in 1..Len(task.calls) : task.calls[i].status = "failed"

\* a PDF without pages: the "failed" callback was posted and answered 200
C15_Witness ==
    \E t \in Tasks :
        /\ tasks[t].raised_at = << <<"extract", 0>> >>
        /\ tasks[t].caught = <<"No slides extracted from PDF">>
        /\ tasks[t].pc = "done"
        /\ tasks[t].calls[1].status = "failed"
        /\ tasks[t].calls[1].ok_at = 1

\* C16: a job whose download, upload or presign failed stops at that call:
\* the failing call stays the last call of the job's pipeline (the job is
\* never again at a pipeline step), the job has no result, and every
\* callback it starts has status "failed" and, once its payload is built,
\* carries the message of the exception and the code PROCESSING_ERROR.
C16_StorageFailureStops ==
    \A t \in Tasks :
        LET task == tasks[t]
        IN  task.raised_at # <<>> /\ task.raised_at[1][1] \in {"download", "upload", "presign"} =>
                /\ \E n \in 0..MaxSlides :
                       \E i \in 1..Len(OrderedCalls(n)) :
                           OrderedCalls(n)[i] = task.raised_at[1]
                /\ task.locals = NoLocals
                /\ task.result = <<>>
                /\ task.pc \in {"except", "suspended", "done", "raised"}
                /\ task.pc # "except" => task.calls # <<>>
                /\ \A i \in 1..Len(task.calls) :
                       /\ task.calls[i].status = "failed"
                       /\ task.calls[i].payload # <<>> =>
                              PayloadValue(task.calls[i].payload, "error") =
                                  << json_dumps(
                                       << <<"message", JsonStr(task.caught[1])>>,
                                          <<"code", JsonStr("PROCESSING_ERROR")>> >>) >>

\* the second upload failed: no third upload, no presign, and the "failed"
\* callback with the upload's message was posted
C16_Witness ==
    \E t \in Tasks :
        /\ tasks[t].raised_at = << <<"upload", 2>> >>
        /\ tasks[t].caught = <<"S3 upload failed: ClientError">>
        /\ tasks[t].calls # <<>>
        /\ tasks[t].calls[1].posts # <<>>

----------------------------------------------------------------------------
(* the explanation records explain_slide gives *)

\* the results computed so far for the reply under test
Results ==
    (IF nz.worker # <<>> THEN {nz.worker[1]} ELSE {})
    \cup (IF nz.ui # <<>> THEN {nz.ui[1]} ELSE {})

RecordFields ==
    { "titulo", "explicacion_didactica", "puntos_clave", "conexiones",
      "resumen_corto", "anki_cards" }

\* the reply is the text of one JSON object
IsObjectReply ==
    /\ nz.slide_number > 0
    /\ json_loads(nz.content) # <<>>
    /\ is_dict(json_loads(nz.content)[1])

ReplyObject == json_loads(nz.content)[1]

\* C17: every result with success = true holds an explanation record with
\* all six fields present and none of them null, whatever the object the
\* model returned.
C17_NoNullField ==
    \A r \in Results :
        r.success =>
            /\ DOMAIN r.explanation = RecordFields
            /\ \A f \in RecordFields : r.explanation[f] # JNull

\* C18: for a reply that is not JSON (json.loads raises on its text),
\* explain_slide raises nothing on the way and gives an explanation record
\* with all six fields.
C18_NonJsonGivesRecord ==
    nz.slide_number > 0 /\ json_loads(nz.content) = <<>> =>
        \A r \in Results :
            /\ r.success
            /\ DOMAIN r.explanation = RecordFields

\* the reply is one JSON object holding all five canonical keys
IsCanonicalReply ==
    /\ IsObjectReply
    /\ \A i \in 1..Len(CanonicalKeys) : has_key(ReplyObject, CanonicalKeys[i])

\* the value the reply's object holds under key
ReplyValue(key) == dict_get(ReplyObject, key, JNull)

\* C19 (as stated): for a reply that is one JSON object with all five
\* canonical keys, each of the five canonical fields of the record is
\* exactly the value the reply gives it.
C19_CanonicalVerbatim ==
    IsCanonicalReply =>
        \A r \in Results :
            /\ r.success
            /\ \A i \in 1..Len(CanonicalKeys) :
                   r.explanation[CanonicalKeys[i]] = ReplyValue(CanonicalKeys[i])

\* C19 (amended): for such a reply titulo, explicacion_didactica,
\* conexiones and resumen_corto of the record are exactly the reply's
\* values, and puntos_clave is the reply's value when that value is truthy
\* and the empty list when it is falsy (null, false, 0, "", [], {}).
C19_CanonicalFields ==
    IsCanonicalReply =>
        \A r \in Results :
            /\ r.success
            /\ \A key \in Range(CanonicalKeys) \ {"puntos_clave"} :
                   r.explanation[key] = ReplyValue(key)
            /\ r.explanation.puntos_clave =
                   IF py_bool(ReplyValue("puntos_clave"))
                   THEN ReplyValue("puntos_clave") ELSE JList(<<>>)

\* both functions ran on an object whose title is a string and whose key
\* points are null: the title is kept, the key points became []
C19_Witness ==
    /\ IsCanonicalReply
    /\ ReplyValue("titulo") = JStr(<<"x">>)
    /\ ReplyValue("puntos_clave") = JNull
    /\ nz.worker # <<>> /\ nz.ui # <<>>
    /\ \A r \in Results :
           /\ r.success
           /\ r.explanation.titulo = JStr(<<"x">>)
           /\ r.explanation.puntos_clave = JList(<<>>)

\* the reply is one JSON object in the legacy schema
IsLegacyReply ==
    /\ IsObjectReply
    /\ ReplyObject \in LegacyObjects

\* C20: for a legacy-schema reply with at least one non-empty legacy field
\* the record's didactic explanation is non-empty, and it is the legacy
\* summary when that summary is non-empty.
C20_LegacyExplanation ==
    IsLegacyReply /\ (\E i \in 1..Len(LegacyKeys) : py_bool(ReplyValue(LegacyKeys[i]))) =>
        \A r \in Results :
            /\ r.success
            /\ py_bool(r.explanation.explicacion_didactica)
            /\ py_bool(ReplyValue("resumen")) =>
                   r.explanation.explicacion_didactica = ReplyValue("resumen")

----------------------------------------------------------------------------
(* the artifacts built from a list of explanations *)

\* the slides of the list under test that were analysed
Successful == { i \in 1..Len(ab.explanations) : ab.explanations[i].success }

\* the flashcards the record of slide i holds
CardsOf(i) == ab.explanations[i].explanation.anki_cards[2]

RECURSIVE SumCards(_)
SumCards(slides) ==
    IF slides = {} THEN 0
    ELSE LET i == CHOOSE i \in slides : TRUE
         IN  Len(CardsOf(i)) + SumCards(slides \ {i})

\* the number of flashcards of the analysed slides before slide i
CardsBefore(i) == SumCards({ k \in Successful : k < i })

\* the summary generate_summary_json returned
SummaryBuilt == ab.summary # <<>> /\ ab.summary[1].ok

\* C21: the summary has one slides entry per analysed slide, in slide
\* order, carrying the slide's number and its five fields, and one
\* anki_cards entry per flashcard of an analysed slide, in slide and card
\* order, tagged with the slide's number and carrying the card's question
\* and answer; a failed slide gives neither, and total_slides counts every
\* slide, the failed ones included.
C21_SummaryContents ==
    SummaryBuilt =>
        LET summary == ab.summary[1].data
        IN  /\ summary.total_slides = Len(ab.explanations)
            /\ Len(summary.slides) = Cardinality(Successful)
            /\ \A i \in Successful :
                   LET k == Cardinality({ j \in Successful : j <= i })
                       record == ab.explanations[i].explanation
                   IN  /\ summary.slides[k].slide_number = i
                       /\ \A f \in Range(CanonicalKeys) :
                              summary.slides[k][f] = record[f]
                       /\ DOMAIN summary.slides[k] =
                              Range(CanonicalKeys) \cup {"slide_number"}
            /\ Len(summary.anki_cards) = SumCards(Successful)
            /\ \A i \in Successful : \A j \in 1..Len(CardsOf(i)) :
                   summary.anki_cards[CardsBefore(i) + j] =
                       [slide_number |-> i,
                        front |-> dict_get(CardsOf(i)[j], "pregunta", JStr(<<>>)),
                        back |-> dict_get(CardsOf(i)[j], "respuesta", JStr(<<>>))]

\* a failed first slide and a second slide with two flashcards give a summary of one slide and two cards
\* tagged 2, with total_slides 2
C21_Witness ==
    /\ SummaryBuilt
    /\ Len(ab.explanations) = 2
    /\ Successful = {2}
    /\ Len(ab.summary[1].data.slides) = 1
    /\ Len(ab.summary[1].data.anki_cards) = 2
    /\ ab.summary[1].data.anki_cards[2].slide_number = 2
    /\ ab.summary[1].data.total_slides = 2

\* the package generate_anki_package returned
PackageBuilt == ab.package # <<>> /\ ab.package[1].ok

\* the entries of the flashcard value of slide i that a loop over it visits
\* as objects: the items of a list (a str gives characters, a dict keys)
CardItems(i) ==
    LET anki_cards == ab.explanations[i].explanation.anki_cards
    IN  IF is_list(anki_cards) THEN anki_cards[2] ELSE <<>>

NonBlank(v) == is_str(v) /\ strip(v[2]) # <<>>

\* the cards of slide i that are objects with a non-blank question and a
\* non-blank answer
ValidCards(i) ==
    { j \in 1..Len(CardItems(i)) :
          /\ is_dict(CardItems(i)[j])
          /\ has_key(CardItems(i)[j], "pregunta")
          /\ has_key(CardItems(i)[j], "respuesta")
          /\ NonBlank(dict_get(CardItems(i)[j], "pregunta", JNull))
          /\ NonBlank(dict_get(CardItems(i)[j], "respuesta", JNull)) }

RECURSIVE SumValid(_)
SumValid(slides) ==
    IF slides = {} THEN 0
    ELSE LET i == CHOOSE i \in slides : TRUE
         IN  Cardinality(ValidCards(i)) + SumValid(slides \ {i})

\* every note is annotated with the number and the title of an analysed
\* slide
Annotated(notes) ==
    \A k \in 1..Len(notes) :
        \E i \in Successful :
            notes[k].fields[3] =
                "Slide " \o ToString(i) \o ": "
                \o py_str(ab.explanations[i].explanation.titulo)

\* C22 (as stated): the package holds exactly one card per flashcard of
\* every analysed slide, annotated with the slide's number and title, and
\* so as many cards as the summary's flashcard list has entries.
C22_OneCardPerPair ==
    PackageBuilt =>
        /\ Annotated(ab.package[1].data)
        /\ SummaryBuilt =>
               /\ Len(ab.package[1].data) = SumCards(Successful)
               /\ Len(ab.package[1].data) = Len(ab.summary[1].data.anki_cards)

\* C22 (amended): the package holds exactly one card per flashcard object
\* of an analysed slide whose question and answer are both non-blank, in
\* slide and card order, carrying the trimmed question, the trimmed answer
\* and "Slide n: title" of its slide; blank or incomplete flashcards,
\* entries that are no objects and failed slides give no card, so the
\* package has at most as many cards as the summary's flashcard list has
\* entries.
C22_OneCardPerValidPair ==
    PackageBuilt =>
        LET notes == ab.package[1].data
        IN  /\ Len(notes) = SumValid(Successful)
            /\ Annotated(notes)
            /\ \A i \in Successful : \A j \in ValidCards(i) :
                   notes[SumValid({ k \in Successful : k < i })
                         + Cardinality({ m \in ValidCards(i) : m <= j })] =
                       [fields |->
                           << JStr(strip(dict_get(CardItems(i)[j], "pregunta", JNull)[2])),
                              JStr(strip(dict_get(CardItems(i)[j], "respuesta", JNull)[2])),
                              "Slide " \o ToString(i) \o ": "
                              \o py_str(ab.explanations[i].explanation.titulo) >>]
            /\ SummaryBuilt => Len(notes) <= Len(ab.summary[1].data.anki_cards)

\* a failed slide and a slide with a well-formed and a blank flashcard:
\* the package holds one card, the summary two entries
C22_Witness ==
    /\ PackageBuilt /\ SummaryBuilt
    /\ Len(ab.explanations) = 2
    /\ Successful = {1}
    /\ Len(ab.package[1].data) = 1
    /\ ab.package[1].data[1].fields = << JStr(<<"Q">>), JStr(<<"A">>), "Slide 1: T" >>
    /\ Len(ab.summary[1].data.anki_cards) = 2

\* C23: once generate_docx or generate_anki_package has exited, by return
\* or by exception, none of the temporary files it created exists.
C23_TempFilesDeleted ==
    (ab.docx # <<>> \/ ab.package # <<>>) => ab.files = {}

----------------------------------------------------------------------------
(* the objects a job writes and the URLs it returns *)

\* the put_object calls task t has made, in order
WritesOf(t) == SelectSeq(s3, LAMBDA w : w.task = t)

\* the presigned URL of key, valid for 24 hours
DayUrl(key) ==
    "https://s3/" \o env["S3_BUCKET"][1] \o "/" \o key \o "?Expires=86400"

\* C24: a job with identifier J writes only the keys outputs/J/summary.json,
\* outputs/J/lecture.docx and outputs/J/lecture.apkg, in that order and each
\* at most once per run, and every presigned URL it holds or returns is the
\* URL of one of these keys, the i-th URL that of the i-th key, issued for
\* 86400 s.
C24_OutputKeys ==
    \A t \in Tasks :
        LET task == tasks[t]
            keys == << "outputs/" \o task.job_id \o "/summary.json",
                       "outputs/" \o task.job_id \o "/lecture.docx",
                       "outputs/" \o task.job_id \o "/lecture.apkg" >>
            written == [i \in 1..Len(WritesOf(t)) |-> WritesOf(t)[i].key]
        IN  /\ IsPrefix(written, keys)
            /\ task.pc \in {"upload", "presign"} => task.locals.uploaded = written
            /\ Len(task.locals.urls) <= 3
            /\ \A i \in 1..Len(task.locals.urls) :
                   task.locals.urls[i] = DayUrl(keys[i])
            /\ task.result # <<>> =>
                   /\ written = keys
                   /\ \A i \in 1..3 : task.result[i][2] = JsonStr(DayUrl(keys[i]))

\* a job that has written its three keys and returned their three URLs
C24_Witness ==
    \E t \in Tasks :
        /\ tasks[t].job_id = "j2"
        /\ Len(WritesOf(t)) = 3
        /\ tasks[t].result # <<>>
        /\ tasks[t].result[3] =
               <<"anki_url",
                 JsonStr("https://s3/bucket/outputs/j2/lecture.apkg?Expires=86400")>>

----------------------------------------------------------------------------
(* two jobs on one event loop *)

\* the steps of process_lecture that are network calls: to object storage
\* (download, upload, presign) and to the model provider (explain)
NetworkSteps == {"download", "explain", "upload", "presign"}

\* task t is inside its pipeline, at a network call or at a step that is
\* none
AtNetworkCall(t) == tasks[t].pc \in NetworkSteps
AtLocalStep(t) == tasks[t].pc \in PipelineSteps \ NetworkSteps

\* C25: while a job is at a network call of its pipeline the event loop is
\* free for others: a new request is accepted and a scheduled task of
\* another job is started; while it is at a step that is no network call
\* (rasterization, artifact building) neither happens.
C25_SuspensionPoints ==
    \A t \in Tasks :
        /\ AtNetworkCall(t) =>
               /\ nreq < Cardinality(JobIds) => ENABLED PostProcessPair
               /\ (\E u \in Tasks : tasks[u].pc = "queued") => ENABLED StartTask
        /\ AtLocalStep(t) => ~ENABLED PostProcessPair /\ ~ENABLED StartTask

\* C30: every accepted POST /process has scheduled one background task of
\* its own, whatever identifiers were accepted before; each task, also one
\* whose jobId an earlier task has, makes its own three writes to the three
\* keys of its jobId before it returns, so that two finished tasks of one
\* jobId leave two writes per key, the later one standing; and each task
\* that is past its pipeline has started a callback of its own for its
\* jobId.
C30_NoDeduplication ==
    /\ Len(tasks) = nreq
    /\ \A t \in Tasks :
           LET task == tasks[t]
           IN  /\ task.result # <<>> =>
                      [i \in 1..Len(WritesOf(t)) |-> WritesOf(t)[i].key]
                          = output_keys(task.job_id)
               /\ task.pc \in {"suspended", "done", "raised"} =>
                      /\ task.calls # <<>>
                      /\ task.calls[1].posts # <<>>
                      /\ PayloadValue(task.calls[1].payload, "jobId")
                             = << JsonStr(task.job_id) >>
    /\ \A t, u \in Tasks :
           (t < u /\ tasks[t].job_id = tasks[u].job_id
                  /\ tasks[t].result # <<>> /\ tasks[u].result # <<>>) =>
               \A key \in Range(output_keys(tasks[t].job_id)) :
                   Cardinality({ i \in 1..Len(s3) : s3[i].key = key }) = 2

\* two requests for "j1" were accepted, both tasks ran their pipeline and
\* delivered a "completed" callback, and storage saw six writes
C30_Witness ==
    /\ Len(tasks) = 2
    /\ \A t \in Tasks :
           /\ tasks[t].job_id = "j1"
           /\ tasks[t].pc = "done"
           /\ tasks[t].result # <<>>
           /\ tasks[t].calls[1].status = "completed"
           /\ tasks[t].calls[1].ok_at = 1
    /\ Len(s3) = 6

----------------------------------------------------------------------------
(* termination of a job *)

\* the background task of job t has ended, by return or by exception, and
\* at least one callback POST was made for it
Terminated(t) ==
    /\ tasks[t].pc \in {"done", "raised"}
    /\ PostsOf(t) >= 1

\* C26: with the callback URL and secret configured, under a fair event
\* loop on which every external call returns or raises, the background task
\* of every accepted job eventually ends, and by then at least one
\* callback POST has been attempted for the job.
C26_JobTerminates ==
    (Tasks # {}) ~> (\A t \in Tasks : Terminated(t))

\* a job whose pipeline failed and whose "failed" callback was given up
\* after three POSTs: the task ended by that exception
C26_Witness ==
    \E t \in Tasks :
        /\ tasks[t].pc = "raised"
        /\ tasks[t].raised_at = << <<"download", 0>> >>
        /\ PostsOf(t) = 3

----------------------------------------------------------------------------
(* the order of the recovery strategies *)

\* what strategy k of the chain gives on the reply under test: <<value>>
\* when it parses, <<>> when it does not apply or does not parse
Strategy(k) ==
    LET s == nz.content
        loads(m) == IF m = <<>> THEN <<>> ELSE json_loads(m[1])
    IN  CASE k = 1 -> json_loads(s)
          [] k = 2 -> IF starts_with_quote(s) THEN prepend_brace(s) ELSE <<>>
          [] k = 3 -> loads(search_fenced(s, {"json"}))
          [] k = 4 -> loads(search_fenced(s, {""}))
          [] k = 5 -> loads(search_braces(s))
          [] OTHER -> << last_resort(s, nz.slide_number) >>

\* the result of the first strategy that parses
FirstSuccess ==
    Strategy(CHOOSE k \in 1..6 :
                 /\ Strategy(k) # <<>>
                 /\ \A j \in 1..(k - 1) : Strategy(j) = <<>>)[1]

\* C27: the object a recovery chain extracts from a reply is the result of
\* the first of the six strategies, in their fixed order, that parses:
\* whole text, brace-prepend, fenced block tagged json, any fenced block,
\* greedy span from the first "{" to the last "}", last-resort packaging.
C27_FirstSuccessWins ==
    /\ nz.ui_json # <<>> => nz.ui_json[1] = FirstSuccess
    /\ nz.worker_json # <<>> => nz.worker_json[1] = parsed(FirstSuccess)

----------------------------------------------------------------------------
(* what can fail a job *)

\* the callbacks of task t that reached the orchestrating service's
\* endpoint: the calls that made at least one POST
PostedStatuses(t) ==
    { tasks[t].calls[i].status : i \in { k \in 1..Len(tasks[t].calls) :
                                             tasks[t].calls[k].posts # <<>> } }

\* C28: for one job a "completed" callback and a "failed" callback are
\* never both posted, whatever the callback endpoint answers.
C28_OneOutcomePosted ==
    \A t \in Tasks : PostedStatuses(t) # {"completed", "failed"}

\* C29: the reply of the model for a slide never fails the job: the only
\* exception that leaves the build step is the file system's, so that a job
\* whose download, extraction, builders' files, uploads and presigns
\* succeed returns its outputs and starts a "completed" callback first.
C29_ContentCannotFailJob ==
    \A t \in Tasks :
        LET task == tasks[t]
        IN  /\ task.raised_at = << <<"build", 0>> >> =>
                   task.caught = <<"artifact build failed">>
            /\ (task.calls # <<>> /\ task.calls[1].status = "failed") =>
                   \/ task.raised_at[1][1] \in {"download", "extract", "explain",
                                                "upload", "presign"}
                   \/ task.caught = <<"artifact build failed">>

====
